---- MODULE Spec2Model ----
(***************************************************************************)
(* Starbase: the import-graph extraction pipeline (scripts/parse-repo.mjs, *)
(* here src/unnamed/part_000) and the /api/parse endpoint that coalesces   *)
(* concurrent builds (src/server.mjs).                                     *)
(*                                                                         *)
(* Text is modelled as a sequence of lexemes (short strings); a regular    *)
(* expression of the source is modelled by the scan it performs over the   *)
(* lexemes.  No lexeme other than "@" contains an at-sign and no lexeme    *)
(* other than " " and "\n" contains white space.                           *)
(***************************************************************************)
EXTENDS Integers, Sequences, FiniteSets, TLC

\* ------------------------------------------------------------------ bounds
\* number of POST /api/parse requests in one behaviour
MaxReq == 2
\* number of files in a checkout
MaxFiles == 3
\* the small values of maxFiles: 1..MaxCap
MaxCap == 2
\* number of module-loading statements in the text given to one parseFile call
MaxStmts == 2

\* ------------------------------------------------------------------ paths
\* A path is the sequence of its segments; an absolute path starts at "/".
\* A specifier is the sequence obtained by splitting its text at "/":
\* './b' is <<".", "b">>, './' is <<".", "">>, 'lodash' is <<"lodash">>.
SrcRoot == <<"srv", "src">>
Undefined == <<>>
Null == <<"null">>

Last(s) == s[Len(s)]
Front(s) == SubSeq(s, 1, Len(s) - 1)
IsPrefix(p, s) == Len(p) <= Len(s) /\ SubSeq(s, 1, Len(p)) = p

\* const EXTENSIONS = new Set([...]) in insertion order
EXTENSIONS == <<".js", ".ts", ".jsx", ".tsx", ".mjs", ".cjs">>
SKIP_DIRS == {"node_modules", "__tests__", "__mocks__", "test", "tests", "dist",
              "build", ".next", ".turbo", "fixtures", "__snapshots__"}

Range(s) == {s[i] : i \in 1..Len(s)}

\* the file names of the model, as stem and extension
Stems == {"a", "b", "c", "d", "e", "m", "w", "index", "README"}
KnownExts == Range(EXTENSIONS) \cup {".md"}
\* entry names that start with "."
DotNames == {".github", ".next", ".turbo"}

\* path.extname on a file name
ExtName(name) ==
  LET es == {e \in KnownExts : \E b \in Stems : name = b \o e}
  IN  IF es = {} THEN "" ELSE CHOOSE e \in es : TRUE

\* path.basename(name, extname(name))
StemOf(name) ==
  LET bs == {b \in Stems : \E e \in KnownExts : name = b \o e}
  IN  IF bs = {} THEN name ELSE CHOOSE b \in bs : TRUE

\* path.resolve(dir, specifier) for an absolute dir
RECURSIVE Resolve(_, _)
Resolve(dir, spec) ==
  IF spec = <<>> THEN dir
  ELSE LET h == Head(spec)
       IN  IF h = "" \/ h = "." THEN Resolve(dir, Tail(spec))
           ELSE IF h = ".." THEN Resolve(IF dir = <<>> THEN dir ELSE Front(dir), Tail(spec))
           ELSE Resolve(Append(dir, h), Tail(spec))

\* target + ext on the text of the path
PlusExt(target, ext) ==
  IF target = <<>> THEN <<ext>>
  ELSE Append(Front(target), Last(target) \o ext)

\* path.relative(srcRoot, p) for p below srcRoot
Relative(root, p) == SubSeq(p, Len(root) + 1, Len(p))

\* ------------------------------------------------------------ file walker
\* the order in which readdirSync lists the names of the model
NameOrder == <<".github", "README.md", "a.js", "b", "b.js", "c.js", "d.jsx",
               "e.ts", "index.js", "lib", "m.js", "node_modules", "w.js", "x", "y">>

Entries(tree, dir) ==
  {p[Len(dir) + 1] : p \in {q \in tree : IsPrefix(dir, q) /\ Len(q) > Len(dir)}}

IsDirectory(tree, full) == \E q \in tree : IsPrefix(full, q) /\ Len(q) > Len(full)

\* walk(dir): the source files below dir, in the order they are pushed
RECURSIVE Walk(_, _)
RECURSIVE WalkFrom(_, _, _)
WalkFrom(tree, dir, i) ==
  IF i > Len(NameOrder) THEN <<>>
  ELSE LET entry == NameOrder[i]
           full  == Append(dir, entry)
           here  == IF entry \notin Entries(tree, dir) \/ entry \in DotNames THEN <<>>
                    ELSE IF IsDirectory(tree, full)
                      THEN (IF entry \notin SKIP_DIRS THEN Walk(tree, full) ELSE <<>>)
                    ELSE IF ExtName(entry) \in Range(EXTENSIONS) THEN <<full>>
                    ELSE <<>>
       IN  here \o WalkFrom(tree, dir, i + 1)
Walk(tree, dir) == WalkFrom(tree, dir, 1)

\* The entries of a checkout that cannot be read: statSync throws on the
\* paths of noStat, readdirSync on the directories of noList, readFileSync
\* on the files of noRead.
NoDeny == [noStat |-> {}, noList |-> {}, noRead |-> {}]

\* walk(dir, files) on such a checkout: the array files after the call, and
\* whether the call threw.  A throw of statSync is caught and the entry is
\* passed over; readdirSync is called outside any try.
RECURSIVE WalkFs(_, _, _, _)
RECURSIVE WalkFsFrom(_, _, _, _, _)
WalkFsFrom(tree, fs, dir, i, files) ==
  IF i > Len(NameOrder) THEN [files |-> files, threw |-> FALSE]
  ELSE LET entry == NameOrder[i]
           full  == Append(dir, entry)
       IN  IF entry \notin Entries(tree, dir) \/ entry \in DotNames
                \/ full \in fs.noStat
             THEN WalkFsFrom(tree, fs, dir, i + 1, files)
           ELSE IF IsDirectory(tree, full)
             THEN IF entry \in SKIP_DIRS
                    THEN WalkFsFrom(tree, fs, dir, i + 1, files)
                  ELSE LET sub == WalkFs(tree, fs, full, files)
                       IN  IF sub.threw THEN sub
                           ELSE WalkFsFrom(tree, fs, dir, i + 1, sub.files)
           ELSE IF ExtName(entry) \in Range(EXTENSIONS)
             THEN WalkFsFrom(tree, fs, dir, i + 1, Append(files, full))
           ELSE WalkFsFrom(tree, fs, dir, i + 1, files)
WalkFs(tree, fs, dir, files) ==
  IF dir \in fs.noList THEN [files |-> files, threw |-> TRUE]
  ELSE WalkFsFrom(tree, fs, dir, 1, files)

\* --------------------------------------------------------- import resolver
\* the index files are tried before the extensions
CandidatesIndexFirst(target) ==
  <<target>>
    \o [i \in 1..Len(EXTENSIONS) |-> Append(target, "index" \o EXTENSIONS[i])]
    \o [i \in 1..Len(EXTENSIONS) |-> PlusExt(target, EXTENSIONS[i])]

\* only the exact joined path is tried
CandidatesExact(target) == <<target>>

\* resolveImport(fromFile, specifier, allFilesSet)
Candidates(target) ==
  <<target>>
    \o [i \in 1..Len(EXTENSIONS) |-> PlusExt(target, EXTENSIONS[i])]
    \o [i \in 1..Len(EXTENSIONS) |-> Append(target, "index" \o EXTENSIONS[i])]

ResolveImport(fromFile, specifier, allFilesSet) ==
  LET cs == Candidates(Resolve(Front(fromFile), specifier))
      hits == {i \in 1..Len(cs) : cs[i] \in allFilesSet}
  IN  IF hits = {} THEN Null
      ELSE cs[CHOOSE i \in hits : \A k \in hits : i <= k]

\* spec.startsWith('./') || spec.startsWith('../')
IsRelative(spec) == Len(spec) >= 2 /\ spec[1] \in {".", ".."}

\* an array push in place of the Set
SetAddAlways(set, x) == Append(set, x)

\* Set.prototype.add on a set kept in insertion order
SetAdd(set, x) == IF x \in Range(set) THEN set ELSE Append(set, x)

\* addSpecifier without the test of the prefix
AddSpecifierAny(spec, filePath, allFilesSet, imports) ==
  IF spec # Undefined
    THEN LET resolved == ResolveImport(filePath, spec, allFilesSet)
         IN  IF resolved # Null THEN SetAdd(imports, resolved) ELSE imports
  ELSE imports

\* addSpecifier(spec, filePath, allFilesSet, imports)
AddSpecifier(spec, filePath, allFilesSet, imports) ==
  IF spec # Undefined /\ IsRelative(spec)
    THEN LET resolved == ResolveImport(filePath, spec, allFilesSet)
         IN  IF resolved # Null THEN SetAdd(imports, resolved) ELSE imports
  ELSE imports

RECURSIVE AddAll(_, _, _, _)
AddAll(specs, filePath, allFilesSet, imports) ==
  IF specs = <<>> THEN imports
  ELSE AddAll(Tail(specs), filePath, allFilesSet,
              AddSpecifier(Head(specs), filePath, allFilesSet, imports))

\* The text of a file is the sequence of its module-loading statements:
\*   from     import x from '<spec>' / export ... from '<spec>'
\*   bare     import '<spec>'
\*   dynamic  import('<spec>')
\*   require  require('<spec>')
\* and bad tells that es-module-lexer throws on the text.
Forms == {"from", "bare", "dynamic", "require"}

\* the group (\.[^'"]+) of the three regular expressions: a "." and at
\* least one more character
DotSpec(spec) ==
  /\ spec # Undefined
  /\ spec[1] \in {".", ".."} \cup DotNames
  /\ spec # <<".">>

RECURSIVE SpecsOf(_, _, _)
SpecsOf(stmts, forms, dotOnly) ==
  IF stmts = <<>> THEN <<>>
  ELSE LET st == Head(stmts)
       IN  (IF st.form \in forms /\ (dotOnly => DotSpec(st.spec))
              THEN <<st.spec>> ELSE <<>>)
             \o SpecsOf(Tail(stmts), forms, dotOnly)

\* parseImports(code)[0] mapped to imp.n
LexerSpecs(stmts) == SpecsOf(stmts, {"from", "bare", "dynamic"}, FALSE)
\* the matches of REQUIRE_RE, FROM_RE and BARE_IMPORT_RE
RequireSpecs(stmts) == SpecsOf(stmts, {"require"}, TRUE)
FromSpecs(stmts) == SpecsOf(stmts, {"from"}, TRUE)
BareSpecs(stmts) == SpecsOf(stmts, {"bare"}, TRUE)

Structured(filePath) == ExtName(Last(filePath)) \in {".js", ".ts", ".mjs", ".cjs"}

\* parseFile(filePath, allFilesSet) on the text read from filePath
ParseFile(filePath, code, allFilesSet) ==
  IF Structured(filePath) /\ ~code.bad
    THEN AddAll(LexerSpecs(code.stmts) \o RequireSpecs(code.stmts),
                filePath, allFilesSet, <<>>)
  ELSE AddAll(FromSpecs(code.stmts) \o BareSpecs(code.stmts) \o RequireSpecs(code.stmts),
              filePath, allFilesSet, <<>>)

\* --------------------------------------------------- category assignment
\* String.prototype.toLowerCase on the names of the model
Lower(name) ==
  CASE name = "README.md" -> "readme.md"
    [] name = "Server" -> "server"
    [] OTHER -> name

\* p.includes('/<word>/') on a path given by its segments
Includes(segs, words) == \E i \in 2..(Len(segs) - 1) : segs[i] \in words

CategoryRules ==
  << [cat |-> "server", first |-> {"server"}, inner |-> {"server"}],
     [cat |-> "client", first |-> {"client"}, inner |-> {"client"}],
     [cat |-> "shared", first |-> {"shared"}, inner |-> {"shared"}],
     [cat |-> "lib",    first |-> {"lib"},    inner |-> {"lib"}],
     [cat |-> "build",  first |-> {"build", "compiler"},
                        inner |-> {"build", "compiler", "trace"}],
     [cat |-> "api",    first |-> {"api"},    inner |-> {"api"}],
     [cat |-> "pages",  first |-> {"pages"},  inner |-> {"pages"}],
     [cat |-> "export", first |-> {"export"}, inner |-> {"export"}] >>

\* the category of the leftmost segment that is a keyword of some rule
AssignCategoryBySegment(relPath) ==
  LET p == [i \in 1..Len(relPath) |-> Lower(relPath[i])]
      RulesOf(w) == {k \in 1..Len(CategoryRules) :
                       w \in CategoryRules[k].first \cup CategoryRules[k].inner}
      hits == {i \in 1..Len(p) : RulesOf(p[i]) # {}}
  IN  IF hits = {} THEN "other"
      ELSE LET i == CHOOSE i \in hits : \A k \in hits : i <= k
           IN  CategoryRules[CHOOSE k \in RulesOf(p[i]) : TRUE].cat

\* assignCategory(relPath), relPath split at "/"
AssignCategory(relPath) ==
  LET p == [i \in 1..Len(relPath) |-> Lower(relPath[i])]
      hits == {i \in 1..Len(CategoryRules) :
                 p[1] \in CategoryRules[i].first \/ Includes(p, CategoryRules[i].inner)}
  IN  IF hits = {} THEN "other"
      ELSE CategoryRules[CHOOSE i \in hits : \A k \in hits : i <= k].cat

\* ----------------------------------------------------------- graph reducer
\* the texts that are compared, in the order of their UTF-16 code units
TextOrder ==
  << <<".">>, <<"a.js">>, <<"b">>, <<"b.js">>, <<"b", "index.js">>, <<"c.js">>,
     <<"lib">>, <<"lib", "x">>, <<"lib", "x", "e.ts">>, <<"lib", "x", "y", "d.jsx">> >>
Rank(t) == CHOOSE i \in 1..Len(TextOrder) : TextOrder[i] = t

\* the pair left in the order of the import
SortPairNone(a, b) == <<a, b>>

\* [a, b].sort()
SortPair(a, b) == IF Rank(b) < Rank(a) THEN <<b, a>> ELSE <<a, b>>

\* [a, b].join('|||') and e.split('|||')
JoinKey(pair) == pair[1] \o <<"|||">> \o pair[2]
RECURSIVE SplitKey(_)
SplitKey(e) ==
  LET bars == {i \in 1..Len(e) : e[i] = "|||"}
  IN  IF bars = {} THEN <<e>>
      ELSE LET i == CHOOSE x \in bars : \A y \in bars : x <= y
           IN  <<SubSeq(e, 1, i - 1)>> \o SplitKey(SubSeq(e, i + 1, Len(e)))

Min(a, b) == IF a < b THEN a ELSE b

\* the key cut after one segment
DirKeyOneLevel(srcRoot, filePath) ==
  LET parts == SelectSeq(Relative(srcRoot, Front(filePath)), LAMBDA x : x # "")
      key == SubSeq(parts, 1, Min(1, Len(parts)))
  IN  IF key = <<>> THEN <<".">> ELSE key

\* dirKey(filePath): the first two segments of the file's directory
DirKey(srcRoot, filePath) ==
  LET parts == SelectSeq(Relative(srcRoot, Front(filePath)), LAMBDA x : x # "")
      key == SubSeq(parts, 1, Min(2, Len(parts)))
  IN  IF key = <<>> THEN <<".">> ELSE key

\* a Map in insertion order: a sequence of [k, v]; m.set(k, (m.get(k)||0)+d)
MapHas(m, k) == \E i \in 1..Len(m) : m[i].k = k
MapAdd(m, k, d) ==
  IF MapHas(m, k)
    THEN [i \in 1..Len(m) |-> IF m[i].k = k THEN [k |-> k, v |-> m[i].v + d] ELSE m[i]]
  ELSE Append(m, [k |-> k, v |-> d])
MapGet(m, k) == m[CHOOSE i \in 1..Len(m) : m[i].k = k].v

RECURSIVE DirFiles(_, _, _)
DirFiles(allFiles, srcRoot, acc) ==
  IF allFiles = <<>> THEN acc
  ELSE DirFiles(Tail(allFiles), srcRoot, MapAdd(acc, DirKey(srcRoot, Head(allFiles)), 1))

\* the edge key of one import, <<>> when both ends are in one directory
DirEdgeKey(fromDir, toDir) == JoinKey(SortPair(fromDir, toDir))

RECURSIVE DirEdgesOf(_, _, _, _)
DirEdgesOf(fromDir, imports, srcRoot, edgeSet) ==
  IF imports = <<>> THEN edgeSet
  ELSE LET toDir == DirKey(srcRoot, Head(imports))
       IN  DirEdgesOf(fromDir, Tail(imports), srcRoot,
             IF fromDir # toDir THEN SetAdd(edgeSet, DirEdgeKey(fromDir, toDir))
             ELSE edgeSet)

RECURSIVE DirEdges(_, _, _)
DirEdges(fileImports, srcRoot, edgeSet) ==
  IF fileImports = <<>> THEN edgeSet
  ELSE DirEdges(Tail(fileImports), srcRoot,
         DirEdgesOf(DirKey(srcRoot, Head(fileImports).k), Head(fileImports).v,
                    srcRoot, edgeSet))

DirNode(entry) ==
  [id |-> entry.k,
   label |-> IF entry.k = <<".">> THEN "src (root)" ELSE Last(entry.k),
   category |-> AssignCategory(Append(entry.k, "")),
   fileCount |-> entry.v]

LinkOfKey(e) == [source |-> SplitKey(e)[1], target |-> SplitKey(e)[2]]

\* buildDirectoryGraph(allFiles, fileImports, srcRoot)
BuildDirectoryGraph(allFiles, fileImports, srcRoot) ==
  LET dirFiles == DirFiles(allFiles, srcRoot, <<>>)
      edgeSet == DirEdges(fileImports, srcRoot, <<>>)
  IN  [nodes |-> [i \in 1..Len(dirFiles) |-> DirNode(dirFiles[i])],
       links |-> [i \in 1..Len(edgeSet) |-> LinkOfKey(edgeSet[i])]]

RECURSIVE CountImports(_, _)
CountImports(imports, connCount) ==
  IF imports = <<>> THEN connCount
  ELSE CountImports(Tail(imports), MapAdd(connCount, Head(imports), 1))

RECURSIVE ConnCount(_, _)
ConnCount(fileImports, connCount) ==
  IF fileImports = <<>> THEN connCount
  ELSE ConnCount(Tail(fileImports),
         CountImports(Head(fileImports).v,
           MapAdd(connCount, Head(fileImports).k, Len(Head(fileImports).v))))

\* Array.prototype.sort((a, b) => b[1] - a[1]): stable, descending
InsertDesc(sorted, e) ==
  LET n == Cardinality({i \in 1..Len(sorted) : sorted[i].v >= e.v})
  IN  SubSeq(sorted, 1, n) \o <<e>> \o SubSeq(sorted, n + 1, Len(sorted))
RECURSIVE SortDesc(_, _)
SortDesc(entries, sorted) ==
  IF entries = <<>> THEN sorted
  ELSE SortDesc(Tail(entries), InsertDesc(sorted, Head(entries)))

\* Array.prototype.slice(0, n) for n >= 0
Slice(s, n) == SubSeq(s, 1, Min(n, Len(s)))

\* the slice taken without the sort
TopFilesUnsorted(connCount, cap) == Slice(connCount, cap)

\* the top of the connection count that buildFileGraph keeps
TopFiles(connCount, cap) == Slice(SortDesc(connCount, <<>>), cap)

FileNode(srcRoot, f) ==
  LET rel == Relative(srcRoot, f)
  IN  [id |-> rel, label |-> StemOf(Last(rel)), category |-> AssignCategory(rel),
       fileCount |-> 1]

FileLinkKey(fromId, toId) == JoinKey(SortPair(fromId, toId))

\* the inner loop without the test of the imported file against kept
RECURSIVE FileLinksOfAny(_, _, _, _, _)
FileLinksOfAny(fromId, imports, kept, srcRoot, st) ==
  IF imports = <<>> THEN st
  ELSE LET imp == Head(imports)
           toId == Relative(srcRoot, imp)
           key == FileLinkKey(fromId, toId)
       IN  FileLinksOfAny(fromId, Tail(imports), kept, srcRoot,
             IF key \notin st.linkSet
               THEN [linkSet |-> st.linkSet \cup {key},
                     links |-> Append(st.links, [source |-> fromId, target |-> toId])]
             ELSE st)

\* the inner loop of the links of one file; st is [linkSet, links]
RECURSIVE FileLinksOf(_, _, _, _, _)
FileLinksOf(fromId, imports, kept, srcRoot, st) ==
  IF imports = <<>> THEN st
  ELSE LET imp == Head(imports)
           toId == Relative(srcRoot, imp)
           key == FileLinkKey(fromId, toId)
       IN  FileLinksOf(fromId, Tail(imports), kept, srcRoot,
             IF imp \in kept /\ key \notin st.linkSet
               THEN [linkSet |-> st.linkSet \cup {key},
                     links |-> Append(st.links, [source |-> fromId, target |-> toId])]
             ELSE st)

RECURSIVE FileLinks(_, _, _, _)
FileLinks(fileImports, kept, srcRoot, st) ==
  IF fileImports = <<>> THEN st
  ELSE FileLinks(Tail(fileImports), kept, srcRoot,
         IF Head(fileImports).k \in kept
           THEN FileLinksOf(Relative(srcRoot, Head(fileImports).k),
                            Head(fileImports).v, kept, srcRoot, st)
         ELSE st)

\* buildFileGraph(allFiles, fileImports, srcRoot), maxFiles being the
\* constant of the module
BuildFileGraph(allFiles, fileImports, srcRoot, maxFiles) ==
  LET sorted == TopFiles(ConnCount(fileImports, <<>>), maxFiles)
      kept == {sorted[i].k : i \in 1..Len(sorted)}
  IN  [nodes |-> [i \in 1..Len(sorted) |-> FileNode(srcRoot, sorted[i].k)],
       links |-> FileLinks(fileImports, kept, srcRoot,
                           [linkSet |-> {}, links |-> <<>>]).links]

\* --------------------------------------------------------- server: inputs
NoToken == "null"
NoRepo == <<>>
NoSd == "undefined"
Tokens == {"gho_A", "gho_B"}
\* repository identifiers, split at "/" with the "/" kept as a lexeme
Repos == {<<"o", "/", "r">>}
SparseDirs == {"src", "lib"}
\* the remote: which token can read which repository, and its directories
Readable(token, repo) == token = "gho_A"
RemoteDirs(repo) == {"src", "lib"}

XAT == "x-access-token:"
STARS == "***"

IsSpace(l) == l \in {" ", "\n"}

\* String.prototype.replace(str, str): only the first occurrence
RECURSIVE ReplaceFirst(_, _, _)
ReplaceFirst(s, a, b) ==
  IF s = <<>> THEN <<>>
  ELSE IF Head(s) = a THEN <<b>> \o Tail(s)
  ELSE <<Head(s)>> \o ReplaceFirst(Tail(s), a, b)

CACHE_DIR == ".repo-cache"
RepoSlug(repo) == ReplaceFirst(repo, "/", "__")
CloneDir(repo) == <<CACHE_DIR, "/">> \o RepoSlug(repo)

\* server.mjs: const jobKey = `${repoName}:${sd || 'src'}`
SdOrSrc(sd) == IF sd = NoSd THEN "src" ELSE sd
JobKey(repo, sd) == repo \o <<":", SdOrSrc(sd)>>

\* ------------------------------------------------- fetcher: error messages
CloneUrl(token, repo) ==
  IF token # NoToken
    THEN <<"https://", XAT, token, "@", "github.com/">> \o repo \o <<".git">>
    ELSE <<"https://github.com/">> \o repo \o <<".git">>

CloneCmd(token, repo) ==
  <<"git clone --depth 1 --filter=blob:none --sparse", " ">>
    \o CloneUrl(token, repo) \o <<" ">> \o CloneDir(repo)

SparseCmd(sd) == <<"git sparse-checkout set", " ", sd>>

\* child_process.execSync: message of the error it throws.  A non-zero exit
\* gives "Command failed: <cmd>" followed by the stderr text when there is
\* some; a timeout gives the spawn error.
ExecErrMessage(kind, cmd, stderr) ==
  IF kind = "timeout" THEN <<"spawnSync /bin/sh ETIMEDOUT">>
  ELSE <<"Command failed: ">> \o cmd
         \o (IF stderr # <<>> THEN <<"\n">> \o stderr ELSE <<>>)

\* index of the first "@" of s after position 1, 0 when there is none
FirstAt(s) ==
  LET js == {j \in 2..Len(s) : s[j] = "@"}
  IN  IF js = {} THEN 0 ELSE CHOOSE j \in js : \A k \in js : j <= k

\* .replace(/x-access-token:[^@]+@/g, 'x-access-token:***@')
RECURSIVE RedactStderr(_)
RedactStderr(s) ==
  IF s = <<>> THEN <<>>
  ELSE IF Head(s) = XAT /\ FirstAt(s) >= 3
    THEN <<XAT, STARS, "@">> \o RedactStderr(SubSeq(s, FirstAt(s) + 1, Len(s)))
  ELSE <<Head(s)>> \o RedactStderr(Tail(s))

\* JavaScript a || b on strings: the empty string is falsy
OrElse(a, b) == IF a # <<>> THEN a ELSE b

\* parseRepo, catch of the clone: the Error it throws
CloneFailMessage(kind, token, repo, stderr) ==
  <<"git clone failed: ">>
    \o OrElse(RedactStderr(stderr), ExecErrMessage(kind, CloneCmd(token, repo), stderr))

\* parseRepo, catch of the sparse-checkout: the Error it throws
SparseFailMessage(kind, sd, stderr) ==
  <<"git sparse-checkout failed: ">>
    \o OrElse(stderr, ExecErrMessage(kind, SparseCmd(sd), stderr))

NotFoundMessage(repo, sd) ==
  <<"Source directory not found: ">> \o CloneDir(repo) \o <<"/", sd>>

\* what git may write to stderr before it fails
StderrMenu(token, repo) ==
  { <<>>,
    <<"fatal: repository not found">>,
    <<"fatal: unable to access", " ">> \o CloneUrl(token, repo) }

\* ------------------------------------------------ server: error redaction
\* .replace(/gho_\w+/g, '***')
ReplaceGho(s) == [i \in 1..Len(s) |-> IF s[i] \in Tokens THEN STARS ELSE s[i]]

\* length of the longest prefix of s without "@" and without white space
RECURSIVE RunLen(_)
RunLen(s) ==
  IF s = <<>> \/ Head(s) = "@" \/ IsSpace(Head(s)) THEN 0
  ELSE 1 + RunLen(Tail(s))

\* .replace(/x-access-token:[^@\s]+/g, '***')
RECURSIVE ReplaceXat(_)
ReplaceXat(s) ==
  IF s = <<>> THEN <<>>
  ELSE IF Head(s) = XAT /\ RunLen(Tail(s)) >= 1
    THEN <<STARS>> \o ReplaceXat(SubSeq(s, RunLen(Tail(s)) + 2, Len(s)))
  ELSE <<Head(s)>> \o ReplaceXat(Tail(s))

\* server.mjs, catch of the originator
SafeMsg(message) == ReplaceXat(ReplaceGho(OrElse(message, <<"Unknown error">>)))

\* ------------------------------------------------------- server: the state
VARIABLES
  reqs,       \* request id -> the handler's state and its response
  jobs,       \* originating request id -> the promise of its parseRepo call
  parseJobs,  \* the Map parseJobs: job key -> originating request id
  mq,         \* promise reactions waiting to run, in order
  cache       \* .repo-cache: slug -> the checkout made for it

serverVars == <<reqs, jobs, parseJobs, mq, cache>>

\* ------------------------------------------ parseRepo after the fetch stage
VARIABLES
  pc,          \* where parseRepo is
  tree,        \* the files of the checkout below the source root
  fs,          \* the entries of the checkout that cannot be read
  maxFiles,    \* the constant maxFiles of the module (flag --max, default 600)
  opts,        \* the argument of parseRepo
  allFiles,    \* const allFiles = walk(_srcRoot)
  idx,         \* the position of `for (const f of allFiles)`
  src,         \* file -> the text readFileSync returned for it
  fileImports, \* the Map fileImports, in insertion order
  dirGraph,    \* buildDirectoryGraph(...)
  fileGraph,   \* buildFileGraph(...)
  out          \* the object parseRepo returns

pipeVars == <<pc, tree, fs, maxFiles, opts, allFiles, idx, src, fileImports,
              dirGraph, fileGraph, out>>

\* ------------------------------------------------- one call of parseFile
VARIABLES
  pf           \* [files, file, code, imports, pc] of the call

\* ------------------------------------------- gesture control: the state
\* Numbers of the gesture code are fixed-point with two decimals: 0.25 is 25,
\* an angle of 0.3 rad is 30, a distance of 180 is 18000.  A value that may
\* be null is <<>> for null and <<v>> for the number v.
NullNum == <<>>
Some(v) == <<v>>
Val(n) == n[1]

VARIABLES
  running,    \* hands.js: let running
  onGesture,  \* hands.js: let onGesture, the callback given to initHands
  handState,  \* hands.js: const handState, role -> the state of that hand
  raf,        \* the detect callbacks requestAnimationFrame holds
  cam,        \* main.js: the variables of the hand gesture control
  timers,     \* the pending setTimeout callbacks: [id, kind, due]
  now,        \* the clock, in milliseconds
  obs         \* what the last handler did: its name, its input, its calls

gestureVars == <<running, onGesture, handState, raf, cam, timers, now, obs>>

VARIABLES
  page        \* what initHands and stopHands hold of the page: the video
              \* element and its stream, the camera tracks, the initHands
              \* calls at an await, the text of the button and of the status

VARIABLES
  view        \* the current (displayed) camera values updateCamera eases
              \* toward the targets, and the animation frames it has run

\* ------------------------------------------------ viewer: blast radius
VARIABLES
  br          \* one call of computeBlastRadius: [links, startId, maxDepth,
              \* visited, queue, pc]

\* ------------------------------------- one call of a pipeline function
VARIABLES
  fcall        \* [fn, arg, pc, result] of a call of assignCategory or
              \* resolveImport

vars == <<serverVars, pipeVars, pf, gestureVars, page, view, br, fcall>>
notServerVars == <<pipeVars, pf, gestureVars, page, view, br, fcall>>
notPipeVars == <<serverVars, pf, gestureVars, page, view, br, fcall>>
notParseVars == <<serverVars, pipeVars, gestureVars, page, view, br, fcall>>
otherVars == <<serverVars, pipeVars, pf, view, br, fcall>>
notBlastVars == <<serverVars, pipeVars, pf, gestureVars, page, view, fcall>>
notCallVars == <<serverVars, pipeVars, pf, gestureVars, page, view, br>>
notGestureVars == <<otherVars, page>>

ReqIds == 1..MaxReq

IdleReq == [pc |-> "idle", token |-> NoToken, repo |-> NoRepo, sd |-> NoSd,
            job |-> 0, status |-> 0, body |-> <<>>]

InitServer ==
  /\ reqs = [r \in ReqIds |-> IdleReq]
  /\ jobs = <<>>
  /\ parseJobs = <<>>
  /\ mq = <<>>
  /\ cache = <<>>

PipeOff ==
  /\ pc = "off" /\ tree = {} /\ fs = NoDeny /\ maxFiles = 0 /\ opts = [maxFiles |-> 0]
  /\ allFiles = <<>> /\ idx = 0 /\ src = <<>> /\ fileImports = <<>>
  /\ dirGraph = <<>> /\ fileGraph = <<>> /\ out = <<>>

ParseOff == pf = [pc |-> "off"]

\* hands.js: the state of one hand when the module is loaded
HandInit ==
  [smoothX |-> 50, smoothY |-> 50, smoothPinch |-> 100,
   smoothKnobAngle |-> 0, smoothHandSize |-> 25, prevKnobAngle |-> NullNum,
   wasPinching |-> FALSE, activated |-> FALSE]

Roles == {"left", "right"}

\* main.js: the variables of the hand gesture control when the page is
\* loaded, the orbit controls of the graph (auto-rotating, enabled) and the
\* number of initHands calls the click handler is awaiting
CamInit ==
  [handActive |-> FALSE, handControlling |-> FALSE,
   tOrbitX |-> 0, tOrbitY |-> 30, tOrbitDist |-> 18000,
   tLookX |-> 0, tLookY |-> 0,
   rotAnchorX |-> NullNum, rotAnchorY |-> NullNum, rotBaseX |-> 0, rotBaseY |-> 0,
   panAnchorX |-> NullNum, panAnchorY |-> NullNum, panBaseX |-> 0, panBaseY |-> 0,
   resetCooldown |-> FALSE, noHandTimer |-> 0,
   controls |-> [enabled |-> TRUE, autoRotate |-> TRUE],
   loading |-> 0]

\* nothing has run yet
ObsInit ==
  [act |-> "load", hands |-> <<>>, calls |-> <<>>, emitted |-> <<>>,
   frames |-> 0, ticks |-> 0, deactivations |-> 0,
   log |-> [recenters |-> 0, recenterAt |-> NullNum, accepted |-> FALSE,
            refused |-> 0, idleSince |-> NullNum,
            leftPanX |-> NullNum, leftOrbitX |-> NullNum,
            rightDrag |-> "none"]]

\* the awaits of initHands, in the order of the code
Stages == <<"vision", "landmarker", "camera", "play">>

\* hands.js and main.js: no video element, no stream asked of the camera
\* (streams are numbered in the order getUserMedia gives them), no initHands
\* call at an await, the button as created
PageInit ==
  [video |-> FALSE, srcObject |-> 0, acquired |-> 0, live |-> {},
   pending |-> [i \in 1..Len(Stages) |-> 0],
   btn |-> "Hands [off]", status |-> ""]

\* main.js: the current camera values as declared, no animation frame run
ViewInit ==
  [orbitAngleX |-> 0, orbitAngleY |-> 30, orbitDist |-> 18000,
   lookAtX |-> 0, lookAtY |-> 0, anim |-> 0]

\* the page is loaded and the Hands button has not been clicked
InitGesture ==
  /\ running = FALSE
  /\ onGesture = "null"
  /\ handState = [k \in Roles |-> HandInit]
  /\ raf = 0
  /\ cam = CamInit
  /\ timers = {}
  /\ now = 0
  /\ obs = ObsInit
  /\ page = PageInit
  /\ view = ViewInit

\* computeBlastRadius is not called
BlastOff == br = [pc |-> "off"]

\* no pipeline function is called on its own
CallOff == fcall = [pc |-> "off"]

\* ------------------------------------------------------ server: handlers
\* the test of the in-flight map left out
HasJobNever(pj, key) == FALSE

\* parseJobs.has(jobKey)
HasJob(pj, key) == key \in DOMAIN pj

Respond(r, status, body) ==
  [reqs EXCEPT ![r].pc = "done", ![r].status = status, ![r].body = body]

\* POST /api/parse up to its first await.  Requests are numbered in the
\* order they arrive; a handler starts only when no promise reaction is
\* pending (reactions are microtasks, a request is a macrotask).
Request(r, token, repo, sd) ==
  /\ mq = <<>>
  /\ reqs[r].pc = "idle"
  /\ \A q \in ReqIds : q < r => reqs[q].pc # "idle"
  /\ LET rq == [reqs[r] EXCEPT !.token = token, !.repo = repo, !.sd = sd]
         key == JobKey(repo, sd)
     IN  IF token = NoToken
           THEN /\ reqs' = [reqs EXCEPT ![r] =
                     [rq EXCEPT !.pc = "done", !.status = 401,
                                !.body = [error |-> <<"Not authenticated">>]]]
                /\ UNCHANGED <<jobs, parseJobs>>
         ELSE IF repo = NoRepo
           THEN /\ reqs' = [reqs EXCEPT ![r] =
                     [rq EXCEPT !.pc = "done", !.status = 400,
                                !.body = [error |-> <<"Missing repo">>]]]
                /\ UNCHANGED <<jobs, parseJobs>>
         ELSE IF HasJob(parseJobs, key)
           THEN /\ reqs' = [reqs EXCEPT ![r] =
                     [rq EXCEPT !.pc = "awaitJoined", !.job = parseJobs[key]]]
                /\ UNCHANGED <<jobs, parseJobs>>
         ELSE /\ reqs' = [reqs EXCEPT ![r] = [rq EXCEPT !.pc = "awaitOwn", !.job = r]]
              /\ jobs' = (r :> [key |-> key, repo |-> repo, sd |-> SdOrSrc(sd),
                                token |-> token, st |-> "import", val |-> <<>>]) @@ jobs
              /\ parseJobs' = (key :> r) @@ parseJobs
  /\ UNCHANGED <<mq, cache, notServerVars>>

\* the reactions of a settled job: the originator awaited the promise first,
\* the joined requests after it in the order they arrived
Reactions(j) ==
  LET ws == {r \in ReqIds : reqs[r].pc = "awaitJoined" /\ reqs[r].job = j}
      RECURSIVE Asc(_)
      Asc(S) == IF S = {} THEN <<>>
                ELSE LET m == CHOOSE x \in S : \A y \in S : x <= y
                     IN  <<m>> \o Asc(S \ {m})
  IN  <<j>> \o Asc(ws)

Reject(j, message) ==
  /\ jobs' = [jobs EXCEPT ![j].st = "rejected", ![j].val = message]
  /\ mq' = Reactions(j)

\* parseRepo from its entry to `await init`: the clone, the sparse-checkout
\* and the source-directory test run synchronously (execSync).
RunFetch(j, cloneRes, sparseRes, kind, stderr) ==
  LET job  == jobs[j]
      slug == RepoSlug(job.repo)
      hit  == slug \in DOMAIN cache
      co   == [sd |-> job.sd, token |-> job.token, sparse |-> sparseRes = "ok"]
      cache1 == IF hit \/ cloneRes # "ok" THEN cache ELSE (slug :> co) @@ cache
      srcOk == /\ slug \in DOMAIN cache1
               /\ cache1[slug].sparse
               /\ cache1[slug].sd = job.sd
               /\ job.sd \in RemoteDirs(job.repo)
  IN  /\ job.st = "import"
      /\ cloneRes = "ok" => Readable(job.token, job.repo)
      /\ cache' = cache1
      /\ IF ~hit /\ cloneRes # "ok"
           THEN Reject(j, CloneFailMessage(kind, job.token, job.repo, stderr))
         ELSE IF ~hit /\ sparseRes # "ok"
           THEN Reject(j, SparseFailMessage(kind, job.sd, stderr))
         ELSE IF ~srcOk
           THEN Reject(j, NotFoundMessage(job.repo, job.sd))
         ELSE /\ jobs' = [jobs EXCEPT ![j].st = "parse"]
              /\ mq' = mq
      /\ UNCHANGED <<reqs, parseJobs, notServerVars>>

JobFetch(j) ==
  /\ mq = <<>>
  /\ j \in DOMAIN jobs
  /\ \E cloneRes \in {"ok", "fail"}, sparseRes \in {"ok", "fail"},
        kind \in {"exit", "timeout"},
        stderr \in StderrMenu(jobs[j].token, jobs[j].repo) :
       RunFetch(j, cloneRes, sparseRes, kind, stderr)

\* parseRepo returns the graph document.  The document is abstracted to what
\* identifies it: the repository, the subdirectory and the checkout read.
JobReturn(j) ==
  /\ mq = <<>>
  /\ j \in DOMAIN jobs
  /\ jobs[j].st = "parse"
  /\ jobs' = [jobs EXCEPT ![j].st = "resolved",
                ![j].val = [repo |-> jobs[j].repo, pathPrefix |-> jobs[j].sd,
                            fetchedWith |-> cache[RepoSlug(jobs[j].repo)].token]]
  /\ mq' = Reactions(j)
  /\ UNCHANGED <<reqs, parseJobs, cache, notServerVars>>

\* a delete that removes nothing
MapKeep(m, k) == m

\* Map.prototype.delete
MapDelete(m, k) == [x \in DOMAIN m \ {k} |-> m[x]]

\* the originator after `await promise`: try / catch / finally
OwnerBody(message) == [error |-> SafeMsg(message)]
\* a joined request after `await parseJobs.get(jobKey)`: try / catch
JoinedBody(message) == [error |-> message]

React ==
  /\ mq # <<>>
  /\ LET r == Head(mq)
         job == jobs[reqs[r].job]
     IN  /\ IF reqs[r].pc = "awaitOwn"
              THEN /\ reqs' = IF job.st = "resolved"
                                THEN Respond(r, 200, job.val)
                                ELSE Respond(r, 500, OwnerBody(job.val))
                   /\ parseJobs' = MapDelete(parseJobs, job.key)
              ELSE /\ reqs' = IF job.st = "resolved"
                                THEN Respond(r, 200, job.val)
                                ELSE Respond(r, 500, JoinedBody(job.val))
                   /\ parseJobs' = parseJobs
         /\ mq' = Tail(mq)
  /\ UNCHANGED <<jobs, cache, notServerVars>>

NextServer ==
  \/ \E r \in ReqIds, token \in Tokens \cup {NoToken},
        repo \in Repos \cup {NoRepo}, sd \in SparseDirs \cup {NoSd} :
       Request(r, token, repo, sd)
  \/ \E j \in ReqIds : JobFetch(j)
  \/ \E j \in ReqIds : JobReturn(j)
  \/ React

InitS == InitServer /\ PipeOff /\ ParseOff /\ InitGesture /\ BlastOff /\ CallOff

SpecServer == InitS /\ [][NextServer]_vars

\* ---------------------------------------------------- pipeline: inputs
St(form, spec) == [form |-> form, spec |-> spec]
Code(stmts) == [stmts |-> stmts, bad |-> FALSE]
BadCode(stmts) == [stmts |-> stmts, bad |-> TRUE]

FileA == <<"a.js">>
FileB == <<"b.js">>
FileC == <<"c.js">>
FileBI == <<"b", "index.js">>
FileD == <<"lib", "x", "y", "d.jsx">>
FileE == <<"lib", "x", "e.ts">>
\* the paths a checkout is made of, relative to the source root
FilesU == {FileA, FileB, FileC, FileBI, FileD, FileE,
           <<"node_modules", "m.js">>, <<"README.md">>, <<".github", "w.js">>}

Abs(rel) == SrcRoot \o rel

Trees == {{Abs(f) : f \in t} :
            t \in {u \in SUBSET FilesU : u # {} /\ Cardinality(u) <= MaxFiles}}

\* the texts a file of the model may hold
CodeMenu(rel) ==
  CASE rel = FileA ->
         { Code(<<>>),
           Code(<<St("from", <<".", "b">>), St("from", <<".", "c.js">>)>>),
           Code(<<St("require", <<".", "lib", "x", "e">>),
                  St("from", <<".", "lib", "x", "y", "d.jsx">>)>>) }
    [] rel = FileB ->
         { Code(<<>>),
           Code(<<St("from", <<".", "a">>), St("require", <<".", "a.js">>)>>),
           Code(<<St("from", <<".", "c">>), St("from", <<"b.js">>)>>) }
    [] rel = FileC ->
         { Code(<<St("from", <<"lodash">>)>>),
           Code(<<St("bare", <<".", "a">>), St("from", <<".", "c.js">>)>>) }
    [] rel = FileBI ->
         { Code(<<>>),
           Code(<<St("from", <<".", "">>)>>),
           Code(<<St("from", <<"..", "a.js">>)>>) }
    [] rel = FileD ->
         { Code(<<St("from", <<"..", "e">>), St("dynamic", <<"..", "..", "..", "a">>)>>),
           Code(<<St("from", <<"..", "..", "..", "a">>), St("require", <<"..", "e.ts">>)>>) }
    [] rel = FileE ->
         { Code(<<>>),
           Code(<<St("require", <<".", "y", "d">>), St("from", <<"..", "..", "a">>)>>),
           BadCode(<<St("from", <<"..", "..", "a">>), St("dynamic", <<".", "y", "d.jsx">>)>>) }
    [] OTHER -> { Code(<<>>) }

DefaultMaxFiles == 600
CliMaxFiles == (1..MaxCap) \cup {DefaultMaxFiles}
\* opts.maxFiles, 0 when the caller gives none
OptMaxFiles == 0..MaxCap

InitPipe ==
  /\ pc = "walk"
  /\ tree \in Trees
  /\ fs = NoDeny
  /\ maxFiles \in CliMaxFiles
  /\ opts \in [maxFiles : OptMaxFiles]
  /\ allFiles = <<>> /\ idx = 0 /\ src = <<>> /\ fileImports = <<>>
  /\ dirGraph = <<>> /\ fileGraph = <<>> /\ out = <<>>

\* const _maxFiles = opts.maxFiles || maxFiles
LocalMaxFiles == IF opts.maxFiles # 0 THEN opts.maxFiles ELSE maxFiles

\* --------------------------------------------------- pipeline: the steps
\* const allFiles = walk(_srcRoot)
\* when readdirSync throws in it, walk throws and parseRepo rejects
WalkStep ==
  /\ pc = "walk"
  /\ LET w == WalkFs(tree, fs, SrcRoot, <<>>)
     IN  IF w.threw
           THEN /\ pc' = "rejected"
                /\ out' = [error |-> "scandir"]
                /\ UNCHANGED <<allFiles, idx>>
         ELSE /\ allFiles' = w.files
              /\ idx' = 1
              /\ pc' = IF allFiles' = <<>> THEN "dirGraph" ELSE "parse"
              /\ out' = out
  /\ UNCHANGED <<tree, fs, maxFiles, opts, src, fileImports, dirGraph, fileGraph,
                 notPipeVars>>

\* a turn of the loop that keeps the imports of every file, also when there
\* are none
ParseStepKeepsAll ==
  /\ pc = "parse"
  /\ LET f == allFiles[idx]
     IN  IF f \in fs.noRead
           THEN /\ pc' = "rejected"
                /\ out' = [error |-> "open"]
                /\ UNCHANGED <<idx, src, fileImports>>
         ELSE /\ \E code \in CodeMenu(Relative(SrcRoot, f)) :
                   LET imports == ParseFile(f, code, Range(allFiles))
                   IN  /\ src' = (f :> code) @@ src
                       /\ fileImports' = Append(fileImports, [k |-> f, v |-> imports])
              /\ idx' = idx + 1
              /\ pc' = IF idx' > Len(allFiles) THEN "dirGraph" ELSE "parse"
              /\ out' = out
  /\ UNCHANGED <<tree, fs, maxFiles, opts, allFiles, dirGraph, fileGraph, notPipeVars>>

\* one turn of `for (const f of allFiles)`: the text of f is read, parsed,
\* and its imports are kept when there are some
\* parseFile calls readFileSync outside any try: when it throws, parseFile
\* and with it parseRepo reject
ParseStep ==
  /\ pc = "parse"
  /\ LET f == allFiles[idx]
     IN  IF f \in fs.noRead
           THEN /\ pc' = "rejected"
                /\ out' = [error |-> "open"]
                /\ UNCHANGED <<idx, src, fileImports>>
         ELSE /\ \E code \in CodeMenu(Relative(SrcRoot, f)) :
                   LET imports == ParseFile(f, code, Range(allFiles))
                   IN  /\ src' = (f :> code) @@ src
                       /\ fileImports' = IF imports # <<>>
                                           THEN Append(fileImports, [k |-> f, v |-> imports])
                                         ELSE fileImports
              /\ idx' = idx + 1
              /\ pc' = IF idx' > Len(allFiles) THEN "dirGraph" ELSE "parse"
              /\ out' = out
  /\ UNCHANGED <<tree, fs, maxFiles, opts, allFiles, dirGraph, fileGraph, notPipeVars>>

DirGraphStep ==
  /\ pc = "dirGraph"
  /\ dirGraph' = BuildDirectoryGraph(allFiles, fileImports, SrcRoot)
  /\ pc' = "fileGraph"
  /\ UNCHANGED <<tree, fs, maxFiles, opts, allFiles, idx, src, fileImports, fileGraph, out,
                 notPipeVars>>

FileGraphStep ==
  /\ pc = "fileGraph"
  /\ fileGraph' = BuildFileGraph(allFiles, fileImports, SrcRoot, maxFiles)
  /\ pc' = "return"
  /\ UNCHANGED <<tree, fs, maxFiles, opts, allFiles, idx, src, fileImports, dirGraph, out,
                 notPipeVars>>

\* the categories in use and fileToDirMap, then the returned object
UsedCats == {dirGraph.nodes[i].category : i \in 1..Len(dirGraph.nodes)}
              \cup {fileGraph.nodes[i].category : i \in 1..Len(fileGraph.nodes)}

FileToDirMap ==
  [rel \in {Relative(SrcRoot, allFiles[i]) : i \in 1..Len(allFiles)} |->
     DirKey(SrcRoot, Abs(rel))]

ReturnStep ==
  /\ pc = "return"
  /\ out' = [meta |-> [nodeCount |-> Len(dirGraph.nodes),
                       linkCount |-> Len(dirGraph.links)],
             categories |-> UsedCats,
             nodes |-> dirGraph.nodes, links |-> dirGraph.links,
             fileNodes |-> fileGraph.nodes, fileLinks |-> fileGraph.links,
             fileToDirMap |-> FileToDirMap]
  /\ pc' = "done"
  /\ UNCHANGED <<tree, fs, maxFiles, opts, allFiles, idx, src, fileImports, dirGraph,
                 fileGraph, notPipeVars>>

Next ==
  \/ WalkStep
  \/ ParseStep
  \/ DirGraphStep
  \/ FileGraphStep
  \/ ReturnStep

Init == InitPipe /\ InitServer /\ ParseOff /\ InitGesture /\ BlastOff /\ CallOff

Spec == Init /\ [][Next]_vars

\* ------------------------------------------------ one call of parseFile
ParseFilesU == {FileA, FileB, FileBI, FileD}
ParseSpecs == { <<".", "b">>, <<".", "b.js">>, <<"b.js">>, <<"..", "..", "..", "b">> }
ParseStmts == {St(form, spec) : form \in Forms, spec \in ParseSpecs}

RECURSIVE SeqsUpTo(_, _)
SeqsUpTo(S, n) ==
  IF n = 0 THEN {<<>>}
  ELSE LET shorter == SeqsUpTo(S, n - 1)
       IN  shorter \cup {Append(q, x) : q \in shorter, x \in S}

ParseCodes == {[stmts |-> q, bad |-> b] : q \in SeqsUpTo(ParseStmts, MaxStmts),
                                           b \in BOOLEAN}

InitParse ==
  \E t \in SUBSET ParseFilesU :
    LET files == Range(Walk({Abs(f) : f \in t}, SrcRoot))
    IN  pf \in [files : {files}, file : files, code : ParseCodes,
                imports : {<<>>}, pc : {"call"}]

ParseCall ==
  /\ pf.pc = "call"
  /\ pf' = [pf EXCEPT !.imports = ParseFile(pf.file, pf.code, pf.files),
                      !.pc = "returned"]
  /\ UNCHANGED notParseVars

NextParse == ParseCall

InitP == InitParse /\ InitServer /\ PipeOff /\ InitGesture /\ BlastOff /\ CallOff

SpecParse == InitP /\ [][NextParse]_vars

\* =================================================================== claims
\* ---------------------------------------------------------------- server
InFlight(j) == jobs[j].st \in {"import", "parse"}

\* C1: at most one parseRepo execution is in flight per job key; an in-flight
\* job is the one registered in parseJobs under its key, and a request that
\* found its key registered awaits that job and has started none of its own.
C1_OneJobPerKey ==
  /\ \A j1, j2 \in DOMAIN jobs :
       InFlight(j1) /\ InFlight(j2) /\ jobs[j1].key = jobs[j2].key => j1 = j2
  /\ \A j \in DOMAIN jobs :
       InFlight(j) => jobs[j].key \in DOMAIN parseJobs /\ parseJobs[jobs[j].key] = j
  /\ \A r \in ReqIds :
       reqs[r].pc = "awaitJoined" =>
         /\ r \notin DOMAIN jobs
         /\ reqs[r].job \in DOMAIN jobs
         /\ jobs[reqs[r].job].key = JobKey(reqs[r].repo, reqs[r].sd)

\* a request has joined a job that is still running
C1_Witness ==
  \E r \in ReqIds : reqs[r].pc = "awaitJoined" /\ InFlight(reqs[r].job)

\* C2: all requests coalesced onto one parse job receive the same terminal
\* outcome, the same status and the same body, originator and joined alike.
C2_SameOutcome ==
  \A r1, r2 \in ReqIds :
    /\ reqs[r1].pc = "done" /\ reqs[r2].pc = "done"
    /\ reqs[r1].job # 0 /\ reqs[r1].job = reqs[r2].job
    => reqs[r1].status = reqs[r2].status /\ reqs[r1].body = reqs[r2].body

Leaks(message) == \E i \in 1..Len(message) : message[i] \in Tokens

\* C3: no token value appears in the Error thrown by parseRepo nor in the
\* error body of any /api/parse response.
C3_NoTokenInErrors ==
  /\ \A j \in DOMAIN jobs : jobs[j].st = "rejected" => ~Leaks(jobs[j].val)
  /\ \A r \in ReqIds : reqs[r].status = 500 => ~Leaks(reqs[r].body.error)

\* -------------------------------------------------------------- parseFile
Occurrences(s, x) == Cardinality({i \in 1..Len(s) : s[i] = x})

\* the specifier starts with './' or '../'
StartsRelative(spec) == Len(spec) >= 2 /\ (spec[1] = "." \/ spec[1] = "..")

\* statement i of the call's text names B by a relative specifier
NamesFile(i, B) ==
  /\ StartsRelative(pf.code.stmts[i].spec)
  /\ ResolveImport(pf.file, pf.code.stmts[i].spec, pf.files) = B

\* C4: if the text of A has at least one relative specifier, in an import,
\* from or require statement, that resolves to B, the import set returned for
\* A contains B exactly once.
C4_ExactlyOnce ==
  pf.pc = "returned" =>
    \A B \in pf.files :
      (\E i \in 1..Len(pf.code.stmts) :
         pf.code.stmts[i].form \in {"from", "bare", "require"} /\ NamesFile(i, B))
      => Occurrences(pf.imports, B) = 1

\* B is named twice, in two syntaxes and by two specifiers
C4_Witness ==
  /\ pf.pc = "returned"
  /\ \E B \in pf.files : \E i, k \in 1..Len(pf.code.stmts) :
       /\ pf.code.stmts[i].form = "from" /\ pf.code.stmts[k].form = "require"
       /\ pf.code.stmts[i].spec # pf.code.stmts[k].spec
       /\ NamesFile(i, B) /\ NamesFile(k, B)
       /\ Occurrences(pf.imports, B) = 1

\* C5: every file of the returned import set is named by a specifier of the
\* text that starts with './' or '../'; a specifier that does not start so
\* produces no edge, whichever scan met it.
C5_OnlyRelative ==
  pf.pc = "returned" =>
    \A B \in Range(pf.imports) : \E i \in 1..Len(pf.code.stmts) : NamesFile(i, B)

\* the text names an existing file by a specifier that is not relative, the
\* structured parser ran, and the file is not in the import set
C5_Witness ==
  /\ pf.pc = "returned"
  /\ Structured(pf.file) /\ ~pf.code.bad
  /\ \E i \in 1..Len(pf.code.stmts) :
       /\ ~StartsRelative(pf.code.stmts[i].spec)
       /\ pf.code.stmts[i].form = "from"
       /\ ResolveImport(pf.file, pf.code.stmts[i].spec, pf.files) \in pf.files
       /\ ResolveImport(pf.file, pf.code.stmts[i].spec, pf.files) \notin Range(pf.imports)

\* ---------------------------------------------------------------- pipeline
C6Tree == {Abs(FileA), Abs(FileB), Abs(FileC)}
C6Src ==
  (Abs(FileA) :> Code(<<St("from", <<".", "b">>), St("from", <<".", "c.js">>)>>))
    @@ (Abs(FileB) :> Code(<<>>))
    @@ (Abs(FileC) :> Code(<<St("from", <<"lodash">>)>>))
C6Project == tree = C6Tree /\ src = C6Src /\ maxFiles >= 3

\* the import edges (fromFile, toFile) held by fileImports
Edges ==
  UNION {{<<fileImports[i].k, fileImports[i].v[j]>> : j \in 1..Len(fileImports[i].v)} :
           i \in 1..Len(fileImports)}
LinkPairs(links) == {{links[i].source, links[i].target} : i \in 1..Len(links)}

\* C6: for the project a.js (imports './b' and './c.js'), b.js (imports
\* nothing), c.js (imports 'lodash') at the source root, with a cap of at
\* least 3: the edges are a->b.js and a->c.js, the file view has 3 nodes and
\* 2 links, the directory view has the one node '.' and no link.
C6_EndToEnd ==
  pc = "done" /\ C6Project =>
    /\ Edges = {<<Abs(FileA), Abs(FileB)>>, <<Abs(FileA), Abs(FileC)>>}
    /\ Len(out.fileNodes) = 3
    /\ {out.fileNodes[i].id : i \in 1..3} = {FileA, FileB, FileC}
    /\ Len(out.fileLinks) = 2
    /\ LinkPairs(out.fileLinks) = {{FileA, FileB}, {FileA, FileC}}
    /\ Len(out.nodes) = 1
    /\ out.nodes[1].id = <<".">> /\ out.nodes[1].fileCount = 3
    /\ out.links = <<>>

C6_Witness == pc = "done" /\ C6Project

\* C7: the file view has at most opts.maxFiles nodes when the caller gives a
\* cap of at least 1.
C7_CapRespected ==
  pc = "done" /\ opts.maxFiles >= 1 => Len(out.fileNodes) <= opts.maxFiles

\* number of resolved outgoing imports plus number of files importing f
Connectivity(f) ==
  Cardinality({e \in Edges : e[1] = f}) + Cardinality({e \in Edges : e[2] = f})
KeptFiles == {Abs(out.fileNodes[i].id) : i \in 1..Len(out.fileNodes)}
DroppedFiles == Range(allFiles) \ KeptFiles

\* C8: every kept file has connectivity greater than or equal to that of
\* every dropped file.
C8_TopByConnectivity ==
  pc = "done" =>
    \A k \in KeptFiles : \A d \in DroppedFiles : Connectivity(k) >= Connectivity(d)

\* the cap dropped a connected file that entered the count before a kept one
C8_Witness ==
  /\ pc = "done"
  /\ \E k \in KeptFiles : \E d \in DroppedFiles :
       /\ Connectivity(d) >= 1
       /\ Connectivity(k) > Connectivity(d)
       /\ \E i, j \in 1..Len(allFiles) : i < j /\ allFiles[i] = d /\ allFiles[j] = k

\* the first two segments of the directory of f below the source root
KeyOfFile(f) ==
  LET d == SubSeq(f, Len(SrcRoot) + 1, Len(f) - 1)
  IN  IF Len(d) = 0 THEN <<".">>
      ELSE IF Len(d) = 1 THEN <<d[1]>>
      ELSE <<d[1], d[2]>>

RECURSIVE SumFileCount(_)
SumFileCount(nodes) ==
  IF nodes = <<>> THEN 0 ELSE Head(nodes).fileCount + SumFileCount(Tail(nodes))

\* C9: the directory view has exactly one node per distinct directory key of
\* the walked files, and the fileCount values sum to the number of walked
\* files.
C9_DirNodes ==
  pc = "done" =>
    /\ {out.nodes[i].id : i \in 1..Len(out.nodes)} = {KeyOfFile(f) : f \in Range(allFiles)}
    /\ \A i, j \in 1..Len(out.nodes) : out.nodes[i].id = out.nodes[j].id => i = j
    /\ \A i \in 1..Len(out.nodes) :
         out.nodes[i].fileCount =
           Cardinality({f \in Range(allFiles) : KeyOfFile(f) = out.nodes[i].id})
    /\ SumFileCount(out.nodes) = Len(allFiles)

\* two files share a key cut from a deeper directory, another key is present
C9_Witness ==
  /\ pc = "done"
  /\ \E i, j \in 1..Len(out.nodes) :
       /\ i # j
       /\ Len(out.nodes[i].id) = 2
       /\ out.nodes[i].fileCount = 2
  /\ \E f \in Range(allFiles) : Len(f) - Len(SrcRoot) - 1 > 2

NoDuplicatePair(links) ==
  \A i, j \in 1..Len(links) :
    {links[i].source, links[i].target} = {links[j].source, links[j].target} => i = j

\* C10: in the directory view and in the file view no two links connect the
\* same unordered pair of node ids.
C10_NoDuplicateLinks ==
  pc = "done" => NoDuplicatePair(out.links) /\ NoDuplicatePair(out.fileLinks)

\* two kept files of two directories import each other
C10_Witness ==
  /\ pc = "done"
  /\ \E a, b \in KeptFiles :
       /\ <<a, b>> \in Edges /\ <<b, a>> \in Edges
       /\ KeyOfFile(a) # KeyOfFile(b)
       /\ Len(out.links) = 1 /\ Len(out.fileLinks) >= 1

NoSelfLink(links) == \A i \in 1..Len(links) : links[i].source # links[i].target

\* C11: in the directory view and in the file view no link has its source
\* equal to its target, also for a project where a relative specifier of a
\* file resolves to that file.
C11_NoSelfLinks ==
  pc = "done" => NoSelfLink(out.links) /\ NoSelfLink(out.fileLinks)

\* ------------------------------------------------------------ fetch stage
\* the call of job j ended in `Source directory not found`
NotFound(j) ==
  /\ jobs[j].st = "rejected"
  /\ jobs[j].val = NotFoundMessage(jobs[j].repo, jobs[j].sd)

\* the checkout the cache holds for the repository of job j
Cached(j) == cache[RepoSlug(jobs[j].repo)]

\* C12: a call for (repo, D) with D present in the remote repository gets a
\* local tree that holds D, also when the cache already holds a completed
\* checkout of the repository made for another subdirectory: no such call
\* ends in `Source directory not found`.
C12_TreeHasSubdir ==
  \A j \in DOMAIN jobs :
    /\ jobs[j].sd \in RemoteDirs(jobs[j].repo)
    /\ RepoSlug(jobs[j].repo) \in DOMAIN cache
    /\ Cached(j).sparse
    => ~NotFound(j)

\* C13: a call that failed in the clone or in the sparse-checkout leaves
\* nothing the next call takes for a checkout: the next call for the same
\* repository and subdirectory fetches again, so it does not end in `Source
\* directory not found` for a subdirectory the remote repository holds.
C13_FailedFetchNotCached ==
  \A j \in DOMAIN jobs :
    /\ jobs[j].sd \in RemoteDirs(jobs[j].repo)
    /\ RepoSlug(jobs[j].repo) \in DOMAIN cache
    /\ Cached(j).sd = jobs[j].sd
    => ~NotFound(j)

\* ------------------------------------------- hands.js: the interpreter
LERP == 25
KNOB_LERP == 30
PINCH_ENTER == 22
PINCH_EXIT == 32
PI == 314

\* lerp(a, b, t), rounded down to the fixed-point grid
Lerp(a, b, t) == a + ((b - a) * t) \div 100

\* angleDelta(a, b): a - b brought into [-PI, PI]
RECURSIVE Wrap(_)
Wrap(d) == IF d > PI THEN Wrap(d - 2 * PI)
           ELSE IF d < -PI THEN Wrap(d + 2 * PI)
           ELSE d
AngleDelta(a, b) == Wrap(a - b)

\* One hand of a frame is given by what the code reads off its landmarks:
\* label (the categoryName of its handedness, "none" when there is none),
\* wristBelow (wrist.y >= middleMcp.y), extended (the fingers with tip.y <
\* pip.y), cross (the sign of the cross product of the two palm vectors),
\* palmX and palmY (the mean of the five palm landmarks), handSize (wrist to
\* middle tip), pinchDist (thumb tip to index tip over handSize) and
\* knobAngle (the angle of the thumb-index segment).

\* handedness?.[0]?.categoryName || 'Right'
LabelOf(lm) == IF lm.label = "none" THEN "Right" ELSE lm.label

\* isPalmUp(lm, handedness)
IsPalmUp(lm) ==
  IF ~lm.wristBelow THEN FALSE
  ELSE IF lm.extended < 3 THEN FALSE
  ELSE IF LabelOf(lm) = "Right" THEN lm.cross < 0
  ELSE lm.cross > 0

\* MediaPipe's "Right" is the user's left hand
KeyOf(lm) == IF LabelOf(lm) = "Right" THEN "left" ELSE "right"

\* A gesture event.  has is the set of the properties the object carries;
\* a property it does not carry reads as undefined (falsy).
AllProps == {"panX", "panY", "isPinching", "knobDelta", "handSize",
             "isLeftHand", "isRightHand", "detected"}
NoEvent ==
  [has |-> {}, panX |-> 0, panY |-> 0, isPinching |-> FALSE, knobDelta |-> 0,
   handSize |-> 0, isLeftHand |-> FALSE, isRightHand |-> FALSE,
   detected |-> FALSE, handsJoined |-> FALSE]
NoHandEvent == [NoEvent EXCEPT !.has = {"detected"}]
JoinedEvent == [NoEvent EXCEPT !.has = {"handsJoined"}, !.handsJoined = TRUE]

\* the pinch flag of this frame, with its hysteresis
IsPinchingAlways(wasPinching, smoothPinch) == smoothPinch < PINCH_ENTER

IsPinching(wasPinching, smoothPinch) ==
  IF wasPinching THEN smoothPinch < PINCH_EXIT ELSE smoothPinch < PINCH_ENTER

\* a processHand whose palm gate is tested anew on every frame
ProcessHandNoLatch(st, lm) ==
  LET act == IsPalmUp(lm)
      s1  == [st EXCEPT !.activated = act,
                        !.smoothX = Lerp(st.smoothX, lm.palmX, LERP),
                        !.smoothY = Lerp(st.smoothY, lm.palmY, LERP),
                        !.smoothPinch = Lerp(st.smoothPinch, lm.pinchDist, LERP),
                        !.smoothHandSize = Lerp(st.smoothHandSize, lm.handSize, LERP),
                        !.smoothKnobAngle = Lerp(st.smoothKnobAngle, lm.knobAngle, KNOB_LERP)]
      isPinching == IsPinching(st.wasPinching, s1.smoothPinch)
      s2  == [s1 EXCEPT !.prevKnobAngle = IF isPinching THEN Some(s1.smoothKnobAngle)
                                          ELSE NullNum,
                        !.wasPinching = isPinching]
      isLeftHand == KeyOf(lm) = "left"
  IN  IF ~act
        THEN [st |-> [st EXCEPT !.activated = act], gesture |-> <<>>]
      ELSE [st |-> s2,
            gesture |-> <<[has |-> AllProps,
                           panX |-> (s2.smoothX - 50) * 2,
                           panY |-> -((s2.smoothY - 50) * 2),
                           isPinching |-> isPinching,
                           knobDelta |-> 0,
                           handSize |-> s2.smoothHandSize,
                           isLeftHand |-> isLeftHand,
                           isRightHand |-> ~isLeftHand,
                           detected |-> TRUE,
                           handsJoined |-> FALSE]>>]

\* processHand(lm, handedness, yOffset) on the state st of the hand's role:
\* the new state and the value returned (<<>> for null)
ProcessHand(st, lm) ==
  LET act == st.activated \/ IsPalmUp(lm)
      s1  == [st EXCEPT !.activated = act,
                        !.smoothX = Lerp(st.smoothX, lm.palmX, LERP),
                        !.smoothY = Lerp(st.smoothY, lm.palmY, LERP),
                        !.smoothPinch = Lerp(st.smoothPinch, lm.pinchDist, LERP),
                        !.smoothHandSize = Lerp(st.smoothHandSize, lm.handSize, LERP),
                        !.smoothKnobAngle = Lerp(st.smoothKnobAngle, lm.knobAngle, KNOB_LERP)]
      isPinching == IsPinching(st.wasPinching, s1.smoothPinch)
      knobDelta == IF isPinching /\ st.wasPinching /\ st.prevKnobAngle # NullNum
                     THEN AngleDelta(s1.smoothKnobAngle, Val(st.prevKnobAngle))
                   ELSE 0
      s2  == [s1 EXCEPT !.prevKnobAngle = IF isPinching THEN Some(s1.smoothKnobAngle)
                                          ELSE NullNum,
                        !.wasPinching = isPinching]
      isLeftHand == KeyOf(lm) = "left"
  IN  IF ~act
        THEN [st |-> [st EXCEPT !.activated = act], gesture |-> <<>>]
      ELSE [st |-> s2,
            gesture |-> <<[has |-> AllProps,
                           panX |-> (s2.smoothX - 50) * 2,
                           panY |-> -((s2.smoothY - 50) * 2),
                           isPinching |-> isPinching,
                           knobDelta |-> knobDelta,
                           handSize |-> s2.smoothHandSize,
                           isLeftHand |-> isLeftHand,
                           isRightHand |-> ~isLeftHand,
                           detected |-> TRUE,
                           handsJoined |-> FALSE]>>]

\* a reset that leaves the pinch flag
ResetHandKeepsPinch(st) ==
  [st EXCEPT !.activated = FALSE, !.prevKnobAngle = NullNum]

\* the reset of a hand in detect and in stopHands
ResetHand(st) ==
  [st EXCEPT !.activated = FALSE, !.prevKnobAngle = NullNum, !.wasPinching = FALSE]

\* the body of detect below `if (!running) return` up to the call of
\* requestAnimationFrame: the states of the hands, the calls of processHand
\* and the events handed to onGesture, in order
RECURSIVE DetectHands(_, _)
DetectHands(hands, acc) ==
  IF hands = <<>> THEN acc
  ELSE LET lm == Head(hands)
           k  == KeyOf(lm)
           r  == ProcessHand(acc.hs[k], lm)
           call == [key |-> k, palmUp |-> IsPalmUp(lm),
                    activated |-> acc.hs[k].activated,
                    wasPinching |-> acc.hs[k].wasPinching,
                    smoothPinch |-> r.st.smoothPinch,
                    gesture |-> r.gesture]
       IN  DetectHands(Tail(hands),
             [hs |-> [acc.hs EXCEPT ![k] = r.st],
              calls |-> Append(acc.calls, call),
              emitted |-> IF r.gesture # <<>> /\ onGesture # "null"
                            THEN acc.emitted \o r.gesture
                          ELSE acc.emitted])

\* a detect that reports the missing hands one role at a time
DetectBodyPerRole(hs, hands) ==
  IF Len(hands) > 0
    THEN DetectHands(hands, [hs |-> hs, calls |-> <<>>, emitted |-> <<>>])
  ELSE [hs |-> [k \in Roles |-> ResetHand(hs[k])],
        calls |-> <<>>,
        emitted |-> <<NoHandEvent, NoHandEvent>>]

DetectBody(hs, hands) ==
  IF Len(hands) > 0
    THEN DetectHands(hands, [hs |-> hs, calls |-> <<>>, emitted |-> <<>>])
  ELSE [hs |-> [k \in Roles |-> ResetHand(hs[k])],
        calls |-> <<>>,
        emitted |-> IF onGesture # "null" THEN <<NoHandEvent>> ELSE <<>>]

\* ------------------------------------- main.js: hand gesture control
ROT_SCALE == 3
PAN_SCALE == 300
ZOOM_NEAR == 45
ZOOM_FAR == 15
DIST_MIN == 3000
DIST_MAX == 60000
NO_HAND_TIMEOUT == 3000
RESET_COOLDOWN == 1500
\* Math.PI * 0.45
MAX_TILT == 141

Max(a, b) == IF a > b THEN a ELSE b
\* a clamp without its upper end
ClampBelow(lo, hi, v) == Max(lo, v)

\* Math.max(lo, Math.min(hi, v))
Clamp(lo, hi, v) == Max(lo, Min(hi, v))

\* the id setTimeout returns: positive, and held by no pending timer
FreshId(ts, held) ==
  1 + Max(held, IF ts = {} THEN 0
                ELSE CHOOSE m \in {t.id : t \in ts} : \A t \in ts : t.id <= m)

\* clearTimeout(id)
ClearTimeout(ts, id) == {t \in ts : t.id # id}

\* the rotation drag of handleGesture: anchor when there is none, then set
\* the target from the base and the displacement
Rotate(c, e) ==
  LET a == IF c.rotAnchorX = NullNum
             THEN [c EXCEPT !.rotAnchorX = Some(e.panX), !.rotAnchorY = Some(e.panY),
                            !.rotBaseX = c.tOrbitX, !.rotBaseY = c.tOrbitY]
           ELSE c
  IN  [a EXCEPT !.tOrbitX = a.rotBaseX + (e.panX - Val(a.rotAnchorX)) * ROT_SCALE,
                !.tOrbitY = Clamp(-MAX_TILT, MAX_TILT,
                              a.rotBaseY - (e.panY - Val(a.rotAnchorY)) * ROT_SCALE)]

\* the zoom from the size of the hand
Zoom(c, e) ==
  IF "handSize" \in e.has
    THEN LET t == Clamp(0, 100, ((e.handSize - ZOOM_FAR) * 100) \div (ZOOM_NEAR - ZOOM_FAR))
         IN  [c EXCEPT !.tOrbitDist = DIST_MAX - (t * (DIST_MAX - DIST_MIN)) \div 100]
  ELSE c

\* the pan drag of the pinching right hand
Pan(c, e) ==
  LET n == [c EXCEPT !.rotAnchorX = NullNum, !.rotAnchorY = NullNum]
      a == IF n.panAnchorX = NullNum
             THEN [n EXCEPT !.panAnchorX = Some(e.panX), !.panAnchorY = Some(e.panY),
                            !.panBaseX = n.tLookX, !.panBaseY = n.tLookY]
           ELSE n
  IN  [a EXCEPT !.tLookX = a.panBaseX + (e.panX - Val(a.panAnchorX)) * PAN_SCALE,
                !.tLookY = a.panBaseY + (e.panY - Val(a.panAnchorY)) * PAN_SCALE]

\* a clearing that forgets the pan anchor
ClearRotAnchors(c) ==
  [c EXCEPT !.rotAnchorX = NullNum, !.rotAnchorY = NullNum]

\* the four assignments of null to the anchors
ClearAnchors(c) ==
  [c EXCEPT !.rotAnchorX = NullNum, !.rotAnchorY = NullNum,
            !.panAnchorX = NullNum, !.panAnchorY = NullNum]

\* the test that guards the recenter
AcceptsAlways(c, e) == e.handsJoined

Accepts(c, e) == e.handsJoined /\ ~c.resetCooldown

\* the test that guards the arming of the idle timer
ArmsAlways(c) == c.handActive

Arms(c) == c.noHandTimer = 0 /\ c.handActive

\* handleGesture(e) at time t on w = [cam, timers, log].  log is what an
\* observer of the calls notes: the recenters done and refused, the time of
\* the last recenter, whether this call was one, the time of the first event
\* without a hand since a hand was last seen, the pan position and the
\* rotation target of the last event of the left hand in the current drag,
\* and the drag the last event of the right hand was part of
HandleGesture(w, e, t) ==
  LET c == w.cam
      lg == [w.log EXCEPT !.accepted = FALSE,
                          !.refused = IF e.handsJoined THEN @ + 1 ELSE @]
  IN
  IF Accepts(c, e)
    THEN [cam |-> ClearAnchors([c EXCEPT !.resetCooldown = TRUE,
                                         !.tOrbitX = 0, !.tOrbitY = 30,
                                         !.tLookX = 0, !.tLookY = 0]),
          timers |-> w.timers \cup
                      {[id |-> FreshId(w.timers, c.noHandTimer), kind |-> "cooldown",
                        due |-> t + RESET_COOLDOWN]},
          log |-> [w.log EXCEPT !.recenters = @ + 1, !.recenterAt = Some(t),
                                !.accepted = TRUE,
                                !.leftPanX = NullNum, !.leftOrbitX = NullNum,
                                !.rightDrag = "none"]]
  ELSE IF ~e.detected
    THEN LET c1 == ClearAnchors([c EXCEPT !.handControlling = FALSE])
             id == FreshId(w.timers, c.noHandTimer)
             lg0 == [lg EXCEPT !.leftPanX = NullNum, !.leftOrbitX = NullNum,
                               !.rightDrag = "none"]
             lg1 == IF c.handActive /\ lg.idleSince = NullNum
                      THEN [lg0 EXCEPT !.idleSince = Some(t)] ELSE lg0
         IN  IF Arms(c)
               THEN [cam |-> [c1 EXCEPT !.noHandTimer = id],
                     timers |-> w.timers \cup
                                 {[id |-> id, kind |-> "noHand", due |-> t + NO_HAND_TIMEOUT]},
                     log |-> lg1]
             ELSE [cam |-> c1, timers |-> w.timers, log |-> lg1]
  ELSE LET c1 == [c EXCEPT !.noHandTimer = 0, !.handControlling = TRUE,
                           !.controls = [enabled |-> FALSE, autoRotate |-> FALSE]]
           c2 == IF e.isLeftHand THEN Zoom(Rotate(c1, e), e) ELSE c1
           c3 == IF e.isRightHand
                   THEN IF e.isPinching THEN Pan(c2, e)
                        ELSE Rotate([c2 EXCEPT !.panAnchorX = NullNum,
                                               !.panAnchorY = NullNum], e)
                 ELSE c2
       IN  [cam |-> c3,
            timers |-> IF c.noHandTimer # 0 THEN ClearTimeout(w.timers, c.noHandTimer)
                       ELSE w.timers,
            log |-> IF e.isLeftHand
                      THEN [lg EXCEPT !.idleSince = NullNum,
                                      !.leftPanX = Some(e.panX),
                                      !.leftOrbitX = Some(c2.tOrbitX)]
                    ELSE IF e.isRightHand
                      THEN [lg EXCEPT !.idleSince = NullNum,
                                      !.rightDrag = IF e.isPinching THEN "pan" ELSE "rot"]
                    ELSE [lg EXCEPT !.idleSince = NullNum]]

\* the events of one detect run handed to handleGesture one after the other
RECURSIVE HandleAll(_, _, _)
HandleAll(w, events, t) ==
  IF events = <<>> THEN w
  ELSE HandleAll(HandleGesture(w, Head(events), t), Tail(events), t)

\* ------------------------------------------ gesture control: the handlers
\* the runs of detect in a behaviour of the interpreter, and in a behaviour
\* of the camera control under the clock
MaxFrames == 7
MaxShort == 4
\* the initHands calls that may be pending together
MaxLoads == 1
\* the clock advances MaxTicks times by at most TickMs milliseconds
MaxTicks == 2
TickMs == 1500

World == [cam |-> cam, timers |-> timers, log |-> obs.log]

\* stopHands() on the page: the tracks of the stream of the video element
\* the variable video holds are stopped
StopTracks(p) ==
  IF p.video /\ p.srcObject # 0
    THEN [p EXCEPT !.live = @ \ {p.srcObject}]
  ELSE p

\* deactivateHands(): stopHands() and the reset of the control variables;
\* ts is the set of timers left pending
DeactivateHands(ts, how) ==
  /\ running' = FALSE
  /\ page' = [StopTracks(page) EXCEPT !.btn = "Hands [off]", !.status = ""]
  /\ handState' = [k \in Roles |-> ResetHand(handState[k])]
  /\ cam' = [cam EXCEPT !.handActive = FALSE, !.handControlling = FALSE,
                        !.noHandTimer = 0,
                        !.controls = [enabled |-> TRUE, autoRotate |-> TRUE]]
  /\ timers' = ts
  /\ obs' = [obs EXCEPT !.act = how, !.deactivations = @ + 1,
                        !.log.idleSince = NullNum,
                        !.log.leftPanX = NullNum, !.log.leftOrbitX = NullNum,
                        !.log.rightDrag = "none",
                        !.hands = <<>>, !.calls = <<>>, !.emitted = <<>>]
  /\ UNCHANGED <<onGesture, raf, now, otherVars>>

\* the click on the Hands button: initHands(handleGesture) up to its first
\* await when hand control is off, the deactivation when it is on
Toggle ==
  /\ IF ~cam.handActive
       THEN /\ cam.loading < MaxLoads
            /\ onGesture' = "handleGesture"
            /\ cam' = [cam EXCEPT !.loading = @ + 1]
            /\ obs' = [obs EXCEPT !.act = "click",
                                  !.hands = <<>>, !.calls = <<>>, !.emitted = <<>>]
            /\ UNCHANGED <<running, handState, raf, timers, now, notGestureVars>>
     ELSE DeactivateHands(ClearTimeout(timers, cam.noHandTimer), "click")

\* what one run of detect does to the hands and, through onGesture, to the
\* camera control
Frame(hs, hands, act) ==
  LET d == DetectBody(hs, hands)
      w == IF onGesture = "handleGesture" THEN HandleAll(World, d.emitted, now)
           ELSE World
  IN  /\ handState' = d.hs
      /\ timers' = w.timers
      /\ obs' = [obs EXCEPT !.act = act, !.hands = hands, !.calls = d.calls,
                            !.emitted = d.emitted, !.frames = @ + 1,
                            !.deactivations = IF act = "init" THEN 0 ELSE @,
                            !.log = w.log]
      /\ cam' = IF act = "init"
                  THEN [w.cam EXCEPT !.handActive = TRUE, !.loading = @ - 1]
                ELSE w.cam

\* the end of initHands after its awaits: running is set, detect runs its
\* first frame and schedules itself; then the click handler goes on after
\* `await initHands(...)` and sets handActive
InitHandsDone(hands, bound) ==
  /\ cam.loading > 0
  /\ obs.frames < bound
  /\ running' = TRUE
  /\ Frame([k \in Roles |-> [handState[k] EXCEPT !.activated = FALSE]], hands, "init")
  /\ raf' = raf + 1
  /\ UNCHANGED <<onGesture, now, notGestureVars>>

\* one run of detect while running
DetectFrame(hands, bound) ==
  /\ raf > 0
  /\ running
  /\ obs.frames < bound
  /\ Frame(handState, hands, "detect")
  /\ UNCHANGED <<running, onGesture, raf, now, notGestureVars>>

\* the run of detect that finds running false and schedules nothing
DetectStopped ==
  /\ raf > 0
  /\ ~running
  /\ raf' = raf - 1
  /\ obs' = [obs EXCEPT !.act = "stopped", !.hands = <<>>, !.calls = <<>>,
                        !.emitted = <<>>]
  /\ UNCHANGED <<running, onGesture, handState, cam, timers, now, notGestureVars>>

\* one run of detect of a gesture source that hands the event e to
\* handleGesture, whatever frame made it
Gesture(e, bound) ==
  /\ raf > 0
  /\ running
  /\ onGesture = "handleGesture"
  /\ obs.frames < bound
  /\ LET w == HandleGesture(World, e, now)
     IN  /\ cam' = w.cam
         /\ timers' = w.timers
         /\ obs' = [obs EXCEPT !.act = "gesture", !.hands = <<>>, !.calls = <<>>,
                               !.emitted = <<e>>, !.frames = @ + 1, !.log = w.log]
  /\ UNCHANGED <<running, onGesture, handState, raf, now, notGestureVars>>

Due(kind) == {t \in timers : t.kind = kind /\ t.due <= now}

\* the callback of the cooldown timer
CooldownFire ==
  /\ \E t \in Due("cooldown") :
       /\ timers' = timers \ {t}
       /\ cam' = [cam EXCEPT !.resetCooldown = FALSE]
  /\ obs' = [obs EXCEPT !.act = "cooldown", !.hands = <<>>, !.calls = <<>>,
                        !.emitted = <<>>]
  /\ UNCHANGED <<running, onGesture, handState, raf, now, notGestureVars>>

\* the callback of the idle timer
NoHandFire ==
  \E t \in Due("noHand") : DeactivateHands(timers \ {t}, "timeout")

\* time passes: by a tick, or up to the next timer when that is sooner.  A
\* timer that is due runs before time passes.
Tick ==
  /\ obs.ticks < MaxTicks
  /\ \A t \in timers : t.due > now
  /\ LET next == now + TickMs
         dues == {t.due : t \in timers}
     IN  now' = IF \E d \in dues : d < next
                  THEN CHOOSE d \in dues : \A x \in dues : d <= x
                ELSE next
  /\ obs' = [obs EXCEPT !.act = "tick", !.ticks = @ + 1, !.hands = <<>>,
                        !.calls = <<>>, !.emitted = <<>>]
  /\ UNCHANGED <<running, onGesture, handState, raf, cam, timers, notGestureVars>>

\* ------------------------------------- gesture control: frames and events
\* a hand of a frame: "palm" shows the palm to the camera, "back" shows the
\* back of the open hand, "fist" has no finger extended
Hand(label, pose, palmX, pinchDist) ==
  [label |-> label, wristBelow |-> TRUE,
   extended |-> IF pose = "fist" THEN 0 ELSE 4,
   cross |-> IF (label = "Left") = (pose = "back") THEN -1 ELSE 1,
   palmX |-> palmX, palmY |-> 50, handSize |-> 25,
   pinchDist |-> pinchDist, knobAngle |-> 0]

\* the user's left hand (MediaPipe "Right") and right hand
L(pose, palmX, pinchDist) == Hand("Right", pose, palmX, pinchDist)
R(pose, palmX, pinchDist) == Hand("Left", pose, palmX, pinchDist)

\* the frames of the interpreter: the hands stay where they are and open
\* and close the pinch
Frames ==
  { <<>>,
    <<L("palm", 50, 0)>>, <<L("fist", 50, 50)>>, <<L("back", 50, 100)>>,
    <<R("fist", 50, 100)>>,
    <<L("palm", 50, 100), R("palm", 50, 100)>>,
    <<L("fist", 50, 0), L("fist", 50, 50)>> }

NextHands ==
  \/ Toggle
  \/ \E hands \in Frames : InitHandsDone(hands, MaxFrames)
  \/ \E hands \in Frames : DetectFrame(hands, MaxFrames)
  \/ DetectStopped

InitH == InitGesture /\ InitServer /\ PipeOff /\ ParseOff /\ BlastOff /\ CallOff

SpecHands == InitH /\ [][NextHands]_vars

\* the frames of the composed system: open hands that move apart and
\* together, and a hand that has not shown its palm
MovingFrames ==
  { <<>>,
    <<L("palm", 30, 100)>>, <<R("back", 70, 100)>>,
    <<L("palm", 30, 100), R("palm", 70, 100)>>,
    <<L("palm", 50, 100), R("palm", 50, 100)>> }

\* the detect loop feeding handleGesture, under the clock
NextCompose ==
  \/ Toggle
  \/ \E hands \in MovingFrames : InitHandsDone(hands, MaxShort)
  \/ \E hands \in MovingFrames : DetectFrame(hands, MaxShort)
  \/ DetectStopped
  \/ NoHandFire
  \/ Tick

SpecCompose == InitH /\ [][NextCompose]_vars

\* the events of a gesture source: no hand, hands joined, and a hand at pan
\* position x, pinching or not
Ev(left, pinching, x) ==
  [has |-> AllProps, panX |-> x, panY |-> 0, isPinching |-> pinching,
   knobDelta |-> 0, handSize |-> 25, isLeftHand |-> left, isRightHand |-> ~left,
   detected |-> TRUE, handsJoined |-> FALSE]

Events ==
  {NoHandEvent, JoinedEvent}
    \cup {Ev(left, pinching, x) : left \in BOOLEAN, pinching \in BOOLEAN, x \in {0, 40}}

\* handleGesture driven by any gesture source, under the clock
NextCamera ==
  \/ Toggle
  \/ InitHandsDone(<<>>, MaxShort)
  \/ \E e \in Events : Gesture(e, MaxShort)
  \/ DetectStopped
  \/ CooldownFire
  \/ NoHandFire
  \/ Tick

SpecCamera == InitH /\ [][NextCamera]_vars

\* --------------------------------------------------- gesture interpreter
\* a run of detect that went past `if (!running) return`
DetectRan == obs.act \in {"detect", "init"}

\* C14: in every call of processHand for an active hand, a hand that was
\* not pinching is pinching only if its smoothed pinch distance of this
\* frame is below 0.22, a hand that was pinching still is if the distance is
\* below 0.32, and with the distance from 0.22 up to 0.32 the flag is the
\* one of the frame before.
C14_PinchHysteresis ==
  DetectRan =>
    \A i \in 1..Len(obs.calls) :
      LET c == obs.calls[i]
      IN  c.gesture # <<>> =>
            LET isPinching == c.gesture[1].isPinching
            IN  /\ (~c.wasPinching /\ isPinching) => c.smoothPinch < PINCH_ENTER
                /\ (c.wasPinching /\ c.smoothPinch < PINCH_EXIT) => isPinching
                /\ (c.smoothPinch >= PINCH_ENTER /\ c.smoothPinch < PINCH_EXIT)
                     => isPinching = c.wasPinching

\* a pinching hand hovers between the two thresholds and is still pinching
C14_Witness ==
  /\ DetectRan
  /\ \E i \in 1..Len(obs.calls) :
       /\ obs.calls[i].gesture # <<>>
       /\ obs.calls[i].wasPinching
       /\ obs.calls[i].smoothPinch >= PINCH_ENTER
       /\ obs.calls[i].smoothPinch < PINCH_EXIT
       /\ obs.calls[i].gesture[1].isPinching

\* C15: a run of detect on a frame without hands calls the gesture callback
\* once, with {detected: false}, and leaves both roles with activated false,
\* wasPinching false and prevKnobAngle null.
C15_NoHandFrame ==
  DetectRan /\ obs.hands = <<>> =>
    /\ obs.emitted = <<NoHandEvent>>
    /\ \A k \in Roles :
         /\ ~handState[k].activated
         /\ ~handState[k].wasPinching
         /\ handState[k].prevKnobAngle = NullNum

\* the frame without hands follows frames in which the left hand pinched:
\* its smoothed pinch distance is still below the enter threshold
C15_Witness ==
  /\ obs.act = "detect" /\ obs.hands = <<>>
  /\ obs.emitted = <<NoHandEvent>>
  /\ handState["left"].smoothPinch < PINCH_ENTER
  /\ ~handState["left"].wasPinching

\* C16 as stated: every run of detect calls the gesture callback exactly
\* once.
C16_ExactlyOneEvent == DetectRan => Len(obs.emitted) = 1

\* the calls of processHand of the last frame whose hand is active after the
\* palm test
ActiveCalls == {i \in 1..Len(obs.calls) : obs.calls[i].activated \/ obs.calls[i].palmUp}

RECURSIVE GesturesOf(_)
GesturesOf(calls) ==
  IF calls = <<>> THEN <<>> ELSE Head(calls).gesture \o GesturesOf(Tail(calls))

\* C16 amended: a run of detect calls the gesture callback once with
\* {detected: false} when the frame has no hand, and otherwise once for each
\* hand of the frame that is active after the palm test, in the order of
\* the frame: twice for two active hands, not at all when no hand of the
\* frame is active.
C16_OnePerActiveHand ==
  DetectRan =>
    IF obs.hands = <<>> THEN obs.emitted = <<NoHandEvent>>
    ELSE /\ Len(obs.calls) = Len(obs.hands)
         /\ \A i \in 1..Len(obs.calls) : i \in ActiveCalls <=> obs.calls[i].gesture # <<>>
         /\ obs.emitted = GesturesOf(obs.calls)
         /\ Len(obs.emitted) = Cardinality(ActiveCalls)
         /\ \A i \in 1..Len(obs.emitted) : obs.emitted[i].detected

\* a frame with both hands active yields the event of the left hand and then
\* the event of the right hand
C16_Witness ==
  /\ obs.act = "detect"
  /\ Len(obs.hands) = 2
  /\ Len(obs.emitted) = 2
  /\ obs.emitted[1].isLeftHand /\ obs.emitted[2].isRightHand

\* -------------------------------------------------------- camera control
\* the step is a call of handleGesture with a handsJoined event
JoinedStep == obs'.act = "gesture" /\ obs'.emitted = <<JoinedEvent>>

\* less than 1.5 s have passed since the last recenter
InCooldown ==
  obs.log.recenterAt # NullNum /\ now < Val(obs.log.recenterAt) + RESET_COOLDOWN

SameTargets ==
  /\ cam'.tOrbitX = cam.tOrbitX /\ cam'.tOrbitY = cam.tOrbitY
  /\ cam'.tLookX = cam.tLookX /\ cam'.tLookY = cam.tLookY

Recentered ==
  /\ cam'.tOrbitX = 0 /\ cam'.tOrbitY = 30
  /\ cam'.tLookX = 0 /\ cam'.tLookY = 0
  /\ obs'.log.recenters = obs.log.recenters + 1

\* C17: a handsJoined event less than 1.5 s after the last recenter leaves
\* the rotation and look-at targets as they are and is no recenter; the
\* cooldown ends 1.5 s after the recenter that started it, whatever events
\* came in between; a handsJoined event after its end is a recenter again.
C17_RecenterCooldown ==
  [][ /\ cam.resetCooldown =>
           /\ obs.log.recenterAt # NullNum
           /\ now <= Val(obs.log.recenterAt) + RESET_COOLDOWN
      /\ JoinedStep /\ InCooldown =>
           SameTargets /\ obs'.log.recenters = obs.log.recenters
      /\ JoinedStep /\ ~cam.resetCooldown => Recentered ]_vars

\* a recenter, a refused handsJoined event, and a second recenter
C17_Witness ==
  /\ obs.act = "gesture" /\ obs.emitted = <<JoinedEvent>>
  /\ obs.log.accepted
  /\ obs.log.recenters = 2
  /\ obs.log.refused >= 1

\* the last frame showed both hands, active, with their palms at one place
HandsTogether ==
  /\ DetectRan
  /\ Len(obs.hands) = 2
  /\ KeyOf(obs.hands[1]) # KeyOf(obs.hands[2])
  /\ obs.hands[1].palmX = obs.hands[2].palmX
  /\ obs.hands[1].palmY = obs.hands[2].palmY
  /\ \A i \in 1..Len(obs.calls) : obs.calls[i].gesture # <<>>

\* C18: in the detect loop feeding handleGesture, a frame that shows both
\* active hands together makes the interpreter hand over a handsJoined event
\* and the camera control run its recenter branch.
C18_JoinRecenters ==
  HandsTogether =>
    /\ \E i \in 1..Len(obs.emitted) : obs.emitted[i].handsJoined
    /\ obs.log.recenters > 0

\* what holds instead: no run of the composed system reaches the recenter
NeverRecenters ==
  /\ obs.log.recenters = 0
  /\ \A i \in 1..Len(obs.emitted) : ~obs.emitted[i].handsJoined

IdleTimers == {t \in timers : t.kind = "noHand"}

\* C19: while hand control is active and events without a hand arrive, one
\* idle timer is pending, due 3 s after the first of these events and moved
\* by none of the later ones; time does not pass its due time without its
\* callback; the callback runs deactivateHands once, after which handActive
\* and handControlling are false, the orbit controls are enabled, the detect
\* loop is stopped and no idle timer is left.
C19_IdleTimeout ==
  /\ Cardinality(IdleTimers) <= 1
  /\ \A t \in IdleTimers :
       /\ cam.noHandTimer = t.id
       /\ cam.handActive
       /\ obs.log.idleSince # NullNum
       /\ t.due = Val(obs.log.idleSince) + NO_HAND_TIMEOUT
  /\ cam.handActive /\ obs.log.idleSince # NullNum =>
       /\ IdleTimers # {}
       /\ now <= Val(obs.log.idleSince) + NO_HAND_TIMEOUT
  /\ obs.act = "timeout" =>
       /\ obs.deactivations = 1
       /\ ~cam.handActive /\ ~cam.handControlling
       /\ cam.controls.enabled
       /\ ~running
       /\ IdleTimers = {} /\ cam.noHandTimer = 0

\* the idle timer ran after 3 s in which two events without a hand arrived
C19_Witness ==
  /\ obs.act = "timeout"
  /\ obs.deactivations = 1
  /\ obs.frames >= 3
  /\ now >= NO_HAND_TIMEOUT
  /\ ~cam.handActive /\ cam.controls.enabled

\* handleGesture has just been given an event of a detected left hand
LeftStep ==
  /\ obs'.act = "gesture"
  /\ Len(obs'.emitted) = 1
  /\ obs'.emitted[1].detected /\ obs'.emitted[1].isLeftHand

\* the left hand is in a drag (no event without a hand and no recenter since
\* its last event) and this event finds it at another place
LeftMoved ==
  /\ obs.log.leftPanX # NullNum
  /\ obs'.emitted[1].panX # Val(obs.log.leftPanX)

\* C20: every event of a detected left hand sets the zoom target from the
\* size of the hand whatever its pinch state, and a left hand that has moved
\* since its last event changes the rotation target it set with that event,
\* also when events of the right hand, open or pinching, came in between.
C20_LeftHandRotates ==
  [][ LeftStep =>
        /\ cam'.tOrbitDist = Zoom(cam, obs'.emitted[1]).tOrbitDist
        /\ LeftMoved => cam'.tOrbitX # Val(obs.log.leftOrbitX) ]_vars

\* the zoom half of C20 alone
LeftHandZooms ==
  [][ LeftStep => cam'.tOrbitDist = Zoom(cam, obs'.emitted[1]).tOrbitDist ]_vars

\* without a pinching right hand in between (the rotation anchor is still
\* set) the moved left hand does change the rotation target
LeftRotatesWhileAnchored ==
  [][ LeftStep /\ LeftMoved /\ cam.rotAnchorX # NullNum =>
        cam'.tOrbitX # Val(obs.log.leftOrbitX) ]_vars

\* ------------------------------------- gesture control: camera and page
\* the initHands calls that may be at an await together, and the streams
\* the camera gives in one run
MaxPending == 2
MaxStreams == 2
\* the frames detect sees while the page is followed
MaxPageFrames == 2

StatusOn == "Palm to start"

\* one initHands call goes from the await i to the next
PassAwait(p, i) == [p EXCEPT !.pending[i] = @ - 1, !.pending[i + 1] = @ + 1]

\* the click on the Hands button with the page: when hand control is off,
\* initHands(handleGesture) makes a new video element and stops at its first
\* await; when it is on, the deactivation
Click ==
  IF ~cam.handActive
    THEN /\ cam.loading < MaxPending
         /\ onGesture' = "handleGesture"
         /\ page' = [page EXCEPT !.video = TRUE, !.srcObject = 0,
                                 !.pending[1] = @ + 1, !.btn = "Hands [loading]"]
         /\ cam' = [cam EXCEPT !.loading = @ + 1]
         /\ obs' = [obs EXCEPT !.act = "start",
                               !.hands = <<>>, !.calls = <<>>, !.emitted = <<>>]
         /\ UNCHANGED <<running, handState, raf, timers, now, otherVars>>
  ELSE DeactivateHands(ClearTimeout(timers, cam.noHandTimer), "click")

\* FilesetResolver.forVisionTasks or HandLandmarker.createFromOptions
\* resolves in one of the calls
Loaded ==
  /\ \E i \in 1..2 :
       /\ page.pending[i] > 0
       /\ page' = PassAwait(page, i)
  /\ obs' = [obs EXCEPT !.act = "loaded",
                        !.hands = <<>>, !.calls = <<>>, !.emitted = <<>>]
  /\ UNCHANGED <<running, onGesture, handState, raf, cam, timers, now, otherVars>>

\* getUserMedia resolves in one of the calls with a new stream, which
\* becomes the srcObject of the element the variable video holds now
CameraGiven ==
  /\ page.pending[3] > 0
  /\ page.acquired < MaxStreams
  /\ LET s == page.acquired + 1
     IN  page' = [PassAwait(page, 3) EXCEPT !.acquired = s, !.live = @ \cup {s},
                                            !.srcObject = s]
  /\ obs' = [obs EXCEPT !.act = "camera",
                        !.hands = <<>>, !.calls = <<>>, !.emitted = <<>>]
  /\ UNCHANGED <<running, onGesture, handState, raf, cam, timers, now, otherVars>>

\* video.play() resolves in one of the calls: running is set, detect runs
\* its first frame and schedules itself, and the click handler goes on
\* after `await initHands(...)`
PlayDone(hands) ==
  /\ page.pending[4] > 0
  /\ obs.frames < MaxPageFrames
  /\ running' = TRUE
  /\ Frame([k \in Roles |-> [handState[k] EXCEPT !.activated = FALSE]], hands, "init")
  /\ raf' = raf + 1
  /\ page' = [page EXCEPT !.pending[4] = @ - 1, !.btn = "Hands [on]",
                          !.status = StatusOn]
  /\ UNCHANGED <<onGesture, now, otherVars>>

\* one of the awaits rejects: initHands rejects and the click handler
\* catches the error
Rejected ==
  /\ \E i \in 1..Len(Stages) :
       /\ page.pending[i] > 0
       /\ page' = [page EXCEPT !.pending[i] = @ - 1, !.btn = "Hands [error]",
                               !.status = Stages[i]]
  /\ cam' = [cam EXCEPT !.loading = @ - 1]
  /\ obs' = [obs EXCEPT !.act = "error",
                        !.hands = <<>>, !.calls = <<>>, !.emitted = <<>>]
  /\ UNCHANGED <<running, onGesture, handState, raf, timers, now, otherVars>>

\* the frames the camera shows while the page is followed
PageFrames == { <<>>, <<L("palm", 30, 100)>> }

\* the button, initHands await by await, and the detect loop
NextPage ==
  \/ Click
  \/ Loaded
  \/ CameraGiven
  \/ \E hands \in PageFrames : PlayDone(hands)
  \/ Rejected
  \/ \E hands \in PageFrames : DetectFrame(hands, MaxPageFrames)
  \/ DetectStopped

SpecPage == InitH /\ [][NextPage]_vars

\* deactivateHands has run and since then no click was made and no
\* initHands call has ended
Deactivated == obs.deactivations > 0 /\ page.btn = "Hands [off]"

\* C21: after deactivateHands has run, whatever the clicks before it, no
\* track of a stream that an initHands call got from the camera is live and
\* the detect loop is not running.
C21_StopReleasesCamera ==
  Deactivated => page.live = {} /\ ~running

\* what stopHands does release: the stream of the video element it holds
StopReleasesHeldStream ==
  Deactivated /\ obs.act = "click" => page.srcObject \notin page.live /\ ~running

\* the click handler has just caught the rejection of an initHands call
JustRejected == obs.act = "error"

\* C22: when initHands rejects, the click handler reports the error (the
\* button shows the error and the status its message) and the system is not
\* in hand control: handActive and handControlling are false and the detect
\* loop is not running.
C22_RejectedInitIsOff ==
  JustRejected =>
    /\ page.btn = "Hands [error]"
    /\ \E i \in 1..Len(Stages) : page.status = Stages[i]
    /\ ~cam.handActive /\ ~cam.handControlling
    /\ ~running

\* the rejection itself changes nothing of the hand control, so a call that
\* rejects while hand control is off leaves it off, and while handActive is
\* false handleGesture is invoked only by the first detect of an initHands
\* call that succeeds
RejectionChangesNothing ==
  [][ /\ obs'.act = "error" =>
           /\ page'.btn = "Hands [error]"
           /\ cam'.handActive = cam.handActive
           /\ cam'.handControlling = cam.handControlling
           /\ running' = running
      /\ ~cam.handActive => ~running /\ ~cam.handControlling
      /\ ~cam.handActive /\ obs'.emitted # <<>> => obs'.act = "init" ]_vars

\* --------------------------------------- pipeline: unreadable entries
\* the entries of a checkout that may be unreadable together
MaxDenied == 1

\* the directories of a checkout below the source root
DirsOf(t) ==
  UNION {{SubSeq(q, 1, n) : n \in (Len(SrcRoot) + 1)..(Len(q) - 1)} : q \in t}

\* the ways in which at most MaxDenied entries of the checkout t are
\* unreadable: a file or a directory statSync fails on, a directory
\* readdirSync fails on, a file readFileSync fails on
Denials(t) ==
  {d \in [noStat : SUBSET (t \cup DirsOf(t)), noList : SUBSET DirsOf(t),
          noRead : SUBSET t] :
     Cardinality(d.noStat) + Cardinality(d.noList) + Cardinality(d.noRead) <= MaxDenied}

\* parseRepo after the fetch on a checkout with unreadable entries, with
\* the file cap of the command line left at its default
InitFs ==
  /\ pc = "walk"
  /\ tree \in Trees
  /\ fs \in Denials(tree)
  /\ maxFiles = DefaultMaxFiles
  /\ opts = [maxFiles |-> 0]
  /\ allFiles = <<>> /\ idx = 0 /\ src = <<>> /\ fileImports = <<>>
  /\ dirGraph = <<>> /\ fileGraph = <<>> /\ out = <<>>
  /\ InitServer /\ ParseOff /\ InitGesture /\ BlastOff /\ CallOff

SpecFs == InitFs /\ [][Next]_vars

\* q is p or a directory above p
AtOrAbove(q, p) == IsPrefix(q, p)

\* the files of the checkout that can be reached: no entry on their path
\* fails statSync and no directory above them fails readdirSync
Reachable(t, d) ==
  {p \in t : /\ \A q \in d.noStat : ~AtOrAbove(q, p)
             /\ \A q \in d.noList : ~AtOrAbove(q, p)}

WalkEnded == pc \notin {"walk", "off"}
WalkThrew == pc = "rejected" /\ out = [error |-> "scandir"]

\* C23: on every checkout with entries that cannot be stat'ed or listed,
\* walk returns, and returns the source files of the readable parts in walk
\* order.
C23_WalkSkipsUnreadable ==
  WalkEnded /\ (fs.noStat # {} \/ fs.noList # {}) =>
    /\ ~WalkThrew
    /\ allFiles = Walk(Reachable(tree, fs), SrcRoot)

\* the half that holds: an entry statSync fails on is passed over
StatFailureSkipped ==
  WalkEnded /\ fs.noList = {} =>
    /\ ~WalkThrew
    /\ allFiles = Walk(Reachable(tree, fs), SrcRoot)

BuildEnded == pc \in {"done", "rejected"} /\ ~WalkThrew

\* the walked file at position i cannot be read, or its text makes the
\* structured parser throw
Unreadable(i) == allFiles[i] \in fs.noRead
ParserThrows(i) == allFiles[i] \in DOMAIN src /\ src[allFiles[i]].bad
FileFails == \E i \in 1..Len(allFiles) : Unreadable(i) \/ ParserThrows(i)

\* the imports kept for a file whose text makes the parser throw are those
\* the three regular expressions find
FallbackOnly ==
  \A i \in 1..Len(fileImports) :
    LET f == fileImports[i].k
    IN  src[f].bad =>
          fileImports[i].v =
            AddAll(FromSpecs(src[f].stmts) \o BareSpecs(src[f].stmts)
                     \o RequireSpecs(src[f].stmts),
                   f, Range(allFiles), <<>>)

\* C24: when a walked file cannot be read or makes the structured parser
\* throw, parseRepo still returns its graph, and a file the parser threw on
\* contributes the imports of the regex fallback only.
C24_FileFailureTolerated ==
  BuildEnded /\ FileFails => pc = "done" /\ FallbackOnly

\* the half that holds: a throw of the structured parser is tolerated
ParserThrowTolerated ==
  BuildEnded /\ fs.noRead = {} => pc = "done" /\ FallbackOnly

ParserThrowSeen == pc = "done" /\ \E i \in 1..Len(allFiles) : ParserThrows(i)

\* ------------------------------------------------ viewer: blast radius
\* the node ids, the links and the depth limit of the graphs looked at
MaxNodes == 3
MaxLinks == 3
MaxDepth == 2

NodeIds == 1..MaxNodes

\* the links array of a graph, as the set of its [source, target] pairs
LinkSets == {ls \in SUBSET (NodeIds \X NodeIds) : Cardinality(ls) <= MaxLinks}

\* only the targets of the links that leave id
AdjForward(links, id) == {l[2] : l \in {m \in links : m[1] = id}}

\* adj[id] || new Set(): every link adds its target to the set of its
\* source and its source to the set of its target
Adj(links, id) ==
  {l[2] : l \in {m \in links : m[1] = id}} \cup {l[1] : l \in {m \in links : m[2] = id}}

\* the orders in which the members of S may come
Orders(S) ==
  {q \in [1..Cardinality(S) -> S] : \A i, j \in 1..Cardinality(S) : q[i] = q[j] => i = j}

\* computeBlastRadius(startId, maxDepth) up to its loop
InitBlast ==
  /\ \E ls \in LinkSets, start \in NodeIds, d \in 0..MaxDepth :
       br = [pc |-> "loop", links |-> ls, startId |-> start, maxDepth |-> d,
             visited |-> (start :> 0), queue |-> <<start>>]
  /\ InitServer /\ PipeOff /\ ParseOff /\ InitGesture /\ CallOff

\* one turn of `while (queue.length > 0)`; the Set of neighbours is gone
\* through in the order the links array gave it, which may be any
BlastStep ==
  /\ br.pc = "loop"
  /\ br.queue # <<>>
  /\ LET id == Head(br.queue)
         depth == br.visited[id]
         fresh == Adj(br.links, id) \ DOMAIN br.visited
     IN  IF depth >= br.maxDepth
           THEN br' = [br EXCEPT !.queue = Tail(@)]
         ELSE \E order \in Orders(fresh) :
                br' = [br EXCEPT !.visited = [n \in fresh |-> depth + 1] @@ @,
                                 !.queue = Tail(@) \o order]
  /\ UNCHANGED notBlastVars

\* return visited
BlastReturn ==
  /\ br.pc = "loop"
  /\ br.queue = <<>>
  /\ br' = [br EXCEPT !.pc = "returned"]
  /\ UNCHANGED notBlastVars

NextBlast == BlastStep \/ BlastReturn

\* the call goes on until it returns
SpecBlast == InitBlast /\ [][NextBlast]_vars /\ WF_vars(NextBlast)

\* the nodes at most k links away from start, links taken in both directions
RECURSIVE Ball(_, _, _)
Ball(links, start, k) ==
  IF k = 0 THEN {start}
  ELSE LET b == Ball(links, start, k - 1)
       IN  b \cup {n \in NodeIds : \E m \in b : <<m, n>> \in links \/ <<n, m>> \in links}

\* the length of the shortest path from start to a node of Ball(.., k)
Distance(links, start, n) ==
  CHOOSE k \in 0..MaxNodes : n \in Ball(links, start, k)
                             /\ \A j \in 0..(k - 1) : n \notin Ball(links, start, j)

BlastCorrect ==
  br.pc = "returned" =>
    /\ DOMAIN br.visited = Ball(br.links, br.startId, br.maxDepth)
    /\ \A n \in DOMAIN br.visited : br.visited[n] = Distance(br.links, br.startId, n)
    /\ br.visited[br.startId] = 0

\* C25: computeBlastRadius returns on every graph, cyclic ones included, and
\* the map it returns has as keys the nodes whose shortest undirected path
\* from start has at most maxDepth links, each with the length of that
\* path, start with 0.
C25_BlastRadius == <>(br.pc = "returned") /\ []BlastCorrect

\* a call has returned on a graph with a cycle through start, with a node
\* two links away and a node left out by the depth limit
C25_Witness ==
  /\ br.pc = "returned"
  /\ \E a \in NodeIds : a # br.startId /\ <<a, br.startId>> \in br.links
                        /\ <<br.startId, a>> \in br.links
  /\ \E n \in NodeIds : n \notin DOMAIN br.visited
                        /\ n \in Ball(br.links, br.startId, MaxNodes)

\* ------------------------------------------- one call of assignCategory
\* the segments of the paths given to assignCategory
MaxSegs == 3

CatNames == {"lib", "server", "Server", "trace", "x", "a.js"}

RECURSIVE PathsUpTo(_, _)
PathsUpTo(S, n) ==
  IF n = 1 THEN {<<x>> : x \in S}
  ELSE LET shorter == PathsUpTo(S, n - 1)
       IN  shorter \cup {Append(q, x) : q \in shorter, x \in S}

\* the ids of file nodes, and the ids of directory nodes with the "/" that
\* buildDirectoryGraph adds
CatPaths ==
  PathsUpTo(CatNames, MaxSegs) \cup {Append(q, "") : q \in PathsUpTo(CatNames, MaxSegs - 1)}

InitCategory ==
  /\ fcall \in {[fn |-> "assignCategory", arg |-> q, pc |-> "call", result |-> ""] :
                 q \in CatPaths}
  /\ InitServer /\ PipeOff /\ ParseOff /\ InitGesture /\ BlastOff

CategoryCall ==
  /\ fcall.pc = "call"
  /\ fcall.fn = "assignCategory"
  /\ fcall' = [fcall EXCEPT !.result = AssignCategory(fcall.arg), !.pc = "returned"]
  /\ UNCHANGED notCallVars

SpecCategory == InitCategory /\ [][CategoryCall]_vars

CategoryReturned == fcall.pc = "returned" /\ fcall.fn = "assignCategory"

\* C26: the category of a path is the one named by its leftmost segment
\* that is a category keyword, and other when no segment is one; the path
\* lib/server/... gets lib.
C26_LeftmostSegment ==
  CategoryReturned => fcall.result = AssignCategoryBySegment(fcall.arg)

CatOrder == <<"server", "client", "shared", "lib", "build", "api", "pages", "export">>

\* the rule of the category cat matches the path: its keyword is the first
\* segment, or a segment that is neither the first nor the last
RuleMatches(q, cat) ==
  LET p == [i \in 1..Len(q) |-> Lower(q[i])]
      firsts == IF cat = "build" THEN {"build", "compiler"} ELSE {cat}
      inners == IF cat = "build" THEN {"build", "compiler", "trace"} ELSE {cat}
  IN  p[1] \in firsts \/ \E i \in 2..(Len(p) - 1) : p[i] \in inners

\* C26, amended: the category of a path is that of the first rule, in the
\* order server, client, shared, lib, build, api, pages, export, that matches
\* it, and other when no rule matches; lib/server/a.js and the directory
\* lib/server get server.
C26_FirstRule ==
  CategoryReturned =>
    /\ \/ /\ fcall.result = "other"
          /\ \A i \in 1..Len(CatOrder) : ~RuleMatches(fcall.arg, CatOrder[i])
       \/ \E i \in 1..Len(CatOrder) :
            /\ fcall.result = CatOrder[i]
            /\ RuleMatches(fcall.arg, CatOrder[i])
            /\ \A j \in 1..(i - 1) : ~RuleMatches(fcall.arg, CatOrder[j])
    /\ fcall.arg \in {<<"lib", "server", "a.js">>, <<"lib", "server", "">>} =>
         fcall.result = "server"

C26_Witness ==
  CategoryReturned /\ fcall.arg = <<"lib", "server", "a.js">> /\ fcall.result = "server"

\* -------------------------------------------- one call of resolveImport
\* the walked files of a call, at most MaxKnown of them, each with a source
\* extension as walk returns them
MaxKnown == 3

ResolveFiles ==
  {Abs(f) : f \in {<<"a.js">>, <<"b.js">>, <<"b.ts">>, <<"b", "index.js">>,
                   <<"b", "index.ts">>, <<"b", "a.js">>}}

ResolveSpecs ==
  { <<".", "b">>, <<".", "b.js">>, <<".", "b", "">>, <<".", "b", "index">>,
    <<"..", "b">>, <<".", "c">>, <<".", "a">> }

InitResolve ==
  /\ fcall \in {[fn |-> "resolveImport",
                 arg |-> [fromFile |-> f, specifier |-> sp, allFilesSet |-> S],
                 pc |-> "call", result |-> Undefined] :
                  f \in ResolveFiles, sp \in ResolveSpecs,
                  S \in {T \in SUBSET ResolveFiles : Cardinality(T) <= MaxKnown}}
  /\ fcall.arg.fromFile \in fcall.arg.allFilesSet
  /\ InitServer /\ PipeOff /\ ParseOff /\ InitGesture /\ BlastOff

ResolveCall ==
  /\ fcall.pc = "call"
  /\ fcall.fn = "resolveImport"
  /\ fcall' = [fcall EXCEPT
                 !.result = ResolveImport(fcall.arg.fromFile, fcall.arg.specifier,
                                          fcall.arg.allFilesSet),
                 !.pc = "returned"]
  /\ UNCHANGED notCallVars

SpecResolve == InitResolve /\ [][ResolveCall]_vars

ResolveReturned == fcall.pc = "returned" /\ fcall.fn = "resolveImport"

\* the path the specifier of the call is joined to
TargetOf(a) == Resolve(Front(a.fromFile), a.specifier)

\* C27: resolveImport returns the exact joined path when it is a walked
\* file; else the joined path with the first source extension, in the order
\* of EXTENSIONS, that makes a walked file; else index.<ext> inside the
\* joined path for the first such extension; else null.  With b.js and
\* b/index.js both walked, './b' is b.js.
C27_ResolveOrder ==
  ResolveReturned =>
    LET a == fcall.arg
        S == a.allFilesSet
        t == TargetOf(a)
        r == fcall.result
        exts == {i \in 1..Len(EXTENSIONS) : PlusExt(t, EXTENSIONS[i]) \in S}
        idxs == {i \in 1..Len(EXTENSIONS) : Append(t, "index" \o EXTENSIONS[i]) \in S}
    IN  /\ t \in S => r = t
        /\ t \notin S /\ exts # {} =>
             \E i \in exts : r = PlusExt(t, EXTENSIONS[i]) /\ \A k \in exts : i <= k
        /\ t \notin S /\ exts = {} /\ idxs # {} =>
             \E i \in idxs : /\ r = Append(t, "index" \o EXTENSIONS[i])
                             /\ \A k \in idxs : i <= k
        /\ t \notin S /\ exts = {} /\ idxs = {} => r = Null
        /\ /\ a.specifier = <<".", "b">> /\ a.fromFile = Abs(<<"a.js">>)
           /\ {Abs(<<"b.js">>), Abs(<<"b", "index.js">>)} \subseteq S
           => r = Abs(<<"b.js">>)

\* './b' was resolved from a.js with b.js and b/index.js both walked
C27_Witness ==
  /\ ResolveReturned
  /\ fcall.arg.specifier = <<".", "b">> /\ fcall.arg.fromFile = Abs(<<"a.js">>)
  /\ {Abs(<<"b.js">>), Abs(<<"b", "index.js">>)} \subseteq fcall.arg.allFilesSet
  /\ fcall.result = Abs(<<"b.js">>)

IdsOf(nodes) == {nodes[i].id : i \in 1..Len(nodes)}

EndpointsIn(links, nodes) ==
  \A i \in 1..Len(links) :
    links[i].source \in IdsOf(nodes) /\ links[i].target \in IdsOf(nodes)

\* C28: every source and target of links is the id of a directory node,
\* every source and target of fileLinks is the id of a kept file node, and
\* an import edge to or from a file that is not kept makes no file link.
C28_EndpointsAreNodes ==
  pc = "done" =>
    /\ EndpointsIn(out.links, out.nodes)
    /\ EndpointsIn(out.fileLinks, out.fileNodes)
    /\ \A e \in Edges :
         e[1] \in DroppedFiles \/ e[2] \in DroppedFiles =>
           {Relative(SrcRoot, e[1]), Relative(SrcRoot, e[2])}
             \notin LinkPairs(out.fileLinks)

\* a kept file imports a file that the cap dropped, and both views have a
\* link
C28_Witness ==
  /\ pc = "done"
  /\ \E e \in Edges : e[1] \in KeptFiles /\ e[2] \in DroppedFiles
  /\ Len(out.fileLinks) >= 1
  /\ Len(out.links) >= 1

\* ------------------------------------------- C29: the activation latch

\* the roles that have a hand in a frame
RolesIn(hands) == {KeyOf(hands[i]) : i \in 1..Len(hands)}

\* the last call of processHand of the last frame for a role
LastCallOf(k) ==
  LET is == {i \in 1..Len(obs.calls) : obs.calls[i].key = k}
  IN  obs.calls[CHOOSE i \in is : \A j \in is : j <= i]

\* what every call of processHand of the last frame did with the gate: a
\* gesture comes out exactly when the hand was active before the call or
\* shows its palm in it, and the role's stored flag is that of its last call
LatchInFrame ==
  DetectRan =>
    /\ \A i \in 1..Len(obs.calls) :
         LET c == obs.calls[i]
         IN  /\ (~c.activated /\ ~c.palmUp) => c.gesture = <<>>
             /\ (~c.activated /\ c.palmUp) => c.gesture # <<>>
             /\ c.activated => c.gesture # <<>>
    /\ \A k \in RolesIn(obs.hands) :
         handState[k].activated = (LastCallOf(k).activated \/ LastCallOf(k).palmUp)

\* a step that is a run of the detect loop over a frame; the run of detect
\* at the end of initHands comes after initHands has cleared both flags and
\* starts the roles anew
DetectStep == obs'.frames # obs.frames /\ obs'.act = "detect"

\* from one frame to the next: a role that is active stays active through
\* a frame that has its hand, and every call for it gives a gesture,
\* whatever the palm test says
LatchAcrossFrames ==
  DetectStep =>
    \A k \in RolesIn(obs'.hands) :
      handState[k].activated =>
        /\ handState'[k].activated
        /\ \A i \in 1..Len(obs'.calls) :
             obs'.calls[i].key = k =>
               obs'.calls[i].activated /\ obs'.calls[i].gesture # <<>>

C30_AbsentHandResets ==
  DetectRan => \A k \in Roles \ RolesIn(obs.hands) : ~handState[k].activated

\* the part that holds: a frame without any hand resets both roles
EmptyFrameResets ==
  (DetectRan /\ obs.hands = <<>>) => \A k \in Roles : ~handState[k].activated

\* a role stays active through a frame that has only the other hand
AbsentHandStaysActive ==
  /\ obs.act = "detect"
  /\ RolesIn(obs.hands) = {"right"}
  /\ handState["left"].activated

\* ------------------------------------ main.js: the animation loop
SM == 10

\* the animation frames in a behaviour, and the calls of handleGesture in a
\* behaviour that has the animation loop
MaxAnim == 1
MaxViewFrames == 4

\* a frame that does not ease
UpdateCameraIdle ==
  /\ view.anim < MaxAnim
  /\ view' = [view EXCEPT !.anim = @ + 1]
  /\ cam' = IF cam.handControlling THEN cam
            ELSE [cam EXCEPT !.controls = [enabled |-> TRUE, autoRotate |-> TRUE]]
  /\ obs' = [obs EXCEPT !.act = "anim", !.hands = <<>>, !.calls = <<>>, !.emitted = <<>>]
  /\ UNCHANGED <<running, onGesture, handState, raf, timers, now, page,
                 serverVars, pipeVars, pf, br, fcall>>

\* a frame that leaves the orbit controls as they are
UpdateCameraNoEnable ==
  /\ view.anim < MaxAnim
  /\ view' = IF cam.handControlling
               THEN [view EXCEPT !.orbitAngleX = Lerp(@, cam.tOrbitX, SM),
                                 !.orbitAngleY = Lerp(@, cam.tOrbitY, SM),
                                 !.orbitDist = Lerp(@, cam.tOrbitDist, SM),
                                 !.lookAtX = Lerp(@, cam.tLookX, SM),
                                 !.lookAtY = Lerp(@, cam.tLookY, SM),
                                 !.anim = @ + 1]
             ELSE [view EXCEPT !.anim = @ + 1]
  /\ cam' = cam
  /\ obs' = [obs EXCEPT !.act = "anim", !.hands = <<>>, !.calls = <<>>, !.emitted = <<>>]
  /\ UNCHANGED <<running, onGesture, handState, raf, timers, now, page,
                 serverVars, pipeVars, pf, br, fcall>>

\* updateCamera(): one animation frame.  While handControlling is set the
\* current values move toward the targets by SM of the difference;
\* otherwise the orbit controls are switched on.
UpdateCamera ==
  /\ view.anim < MaxAnim
  /\ IF cam.handControlling
       THEN /\ view' = [view EXCEPT !.orbitAngleX = Lerp(@, cam.tOrbitX, SM),
                                    !.orbitAngleY = Lerp(@, cam.tOrbitY, SM),
                                    !.orbitDist = Lerp(@, cam.tOrbitDist, SM),
                                    !.lookAtX = Lerp(@, cam.tLookX, SM),
                                    !.lookAtY = Lerp(@, cam.tLookY, SM),
                                    !.anim = @ + 1]
            /\ cam' = cam
     ELSE /\ view' = [view EXCEPT !.anim = @ + 1]
          /\ cam' = [cam EXCEPT !.controls = [enabled |-> TRUE, autoRotate |-> TRUE]]
  /\ obs' = [obs EXCEPT !.act = "anim", !.hands = <<>>, !.calls = <<>>, !.emitted = <<>>]
  /\ UNCHANGED <<running, onGesture, handState, raf, timers, now, page,
                 serverVars, pipeVars, pf, br, fcall>>

\* a hand at (x, y) of the given size
EvAt(left, pinching, x, y, size) ==
  [has |-> AllProps, panX |-> x, panY |-> y, isPinching |-> pinching,
   knobDelta |-> 0, handSize |-> size, isLeftHand |-> left, isRightHand |-> ~left,
   detected |-> TRUE, handsJoined |-> FALSE]

\* the events of the gesture source next to the animation loop: the left
\* hand in the middle, high and near, low and far; the right hand pinching
\* and open
ViewEvents ==
  {NoHandEvent, JoinedEvent,
   EvAt(TRUE, FALSE, 0, 0, 25), EvAt(TRUE, FALSE, 40, -100, 60),
   EvAt(TRUE, FALSE, 40, 100, 5),
   EvAt(FALSE, TRUE, 0, 0, 25), EvAt(FALSE, FALSE, 40, 0, 25)}

\* handleGesture driven by a gesture source, the timers and the animation
\* loop
NextView ==
  \/ Toggle
  \/ InitHandsDone(<<>>, MaxViewFrames)
  \/ \E e \in ViewEvents : Gesture(e, MaxViewFrames)
  \/ DetectStopped
  \/ CooldownFire
  \/ NoHandFire
  \/ Tick
  \/ UpdateCamera

SpecView == InitH /\ [][NextView]_vars

\* ------------------------------------------- C31: what a recenter sets

\* the step is a call of handleGesture that takes the recenter branch
AcceptedJoin == JoinedStep /\ obs'.log.accepted

AnchorsNull(c) ==
  /\ c.rotAnchorX = NullNum /\ c.rotAnchorY = NullNum
  /\ c.panAnchorX = NullNum /\ c.panAnchorY = NullNum

\* C31: an accepted handsJoined event sets the rotation target to (0, 0.3)
\* and the look-at target to (0, 0), clears the rotation and pan anchors,
\* and leaves the zoom target and the current camera values as they are.
C31_RecenterEffect ==
  [][ AcceptedJoin =>
        /\ cam'.tOrbitX = 0 /\ cam'.tOrbitY = 30
        /\ cam'.tLookX = 0 /\ cam'.tLookY = 0
        /\ AnchorsNull(cam')
        /\ cam'.tOrbitDist = cam.tOrbitDist
        /\ view' = view ]_vars

\* a recenter that came when the zoom target and the current values had
\* left their initial values
C31_Witness ==
  /\ obs.act = "gesture" /\ obs.emitted = <<JoinedEvent>> /\ obs.log.accepted
  /\ cam.tOrbitDist # CamInit.tOrbitDist
  /\ view.orbitAngleY # ViewInit.orbitAngleY
  /\ view.orbitAngleX # 0 /\ view.orbitDist # ViewInit.orbitDist

\* ------------------------------- C32: the way back to the orbit controls

\* the step switches the orbit controls on again
ControlsReturn == ~cam.controls.enabled /\ cam'.controls.enabled

\* the step is deactivateHands, from the click or from the idle timer
DeactivationStep ==
  /\ obs'.act \in {"click", "timeout"}
  /\ obs'.deactivations = obs.deactivations + 1

\* C32: once the orbit controls are disabled they are enabled again only by
\* an explicit deactivation or by the idle timeout.
C32_IdleOnlyByDeactivation == [][ControlsReturn => DeactivationStep]_vars

\* the step is an animation frame
AnimStep == obs'.act = "anim" /\ view'.anim = view.anim + 1

\* the step is a call of handleGesture that takes the branch of `!detected`:
\* the event without a hand, or a handsJoined event that is refused and
\* has no detected flag
NoHandStep ==
  /\ obs'.act \in {"gesture", "init"}
  /\ ~obs'.log.accepted
  /\ \E i \in 1..Len(obs'.emitted) : ~obs'.emitted[i].detected

\* C32 amended: the orbit controls come back by a deactivation (click or
\* idle timeout) or by the first animation frame after handControlling was
\* cleared; handControlling is cleared by a deactivation or by an event
\* whose detected flag is not set, and every animation frame that finds it cleared enables
\* the controls and the auto-rotation, however short the gap.
C32_IdleAfterNoHand ==
  [][ /\ ControlsReturn => DeactivationStep \/ (AnimStep /\ ~cam.handControlling)
      /\ (cam.handControlling /\ ~cam'.handControlling) =>
           DeactivationStep \/ NoHandStep
      /\ (AnimStep /\ ~cam.handControlling) =>
           cam'.controls = [enabled |-> TRUE, autoRotate |-> TRUE] ]_vars

\* an animation frame has enabled the controls while hand control is on
\* and the idle timer, armed after a hand had set the zoom, is pending
C32_Witness ==
  /\ obs.act = "anim"
  /\ cam.controls.enabled /\ cam.controls.autoRotate
  /\ cam.handActive
  /\ cam.noHandTimer # 0
  /\ \E t \in timers : t.kind = "noHand" /\ t.due > now
  /\ cam.tOrbitDist # CamInit.tOrbitDist

\* --------------------------------------- C33: no jump at a drag's start

\* the step is a call of handleGesture with an event of a hand
HandStep ==
  /\ obs'.act = "gesture"
  /\ Len(obs'.emitted) = 1
  /\ obs'.emitted[1].detected

\* the event of the step starts a drag: the first event of the left hand,
\* the first open event of the right hand, the first pinching event of the
\* right hand, each since the last event without a hand, recenter or
\* deactivation and, for the right hand, since its last change of pinch
LeftStart == obs'.emitted[1].isLeftHand /\ obs.log.leftPanX = NullNum
RightRotStart ==
  obs'.emitted[1].isRightHand /\ ~obs'.emitted[1].isPinching /\ obs.log.rightDrag # "rot"
RightPanStart ==
  obs'.emitted[1].isRightHand /\ obs'.emitted[1].isPinching /\ obs.log.rightDrag # "pan"

SameRotation == cam'.tOrbitX = cam.tOrbitX /\ cam'.tOrbitY = cam.tOrbitY
SameLookAt == cam'.tLookX = cam.tLookX /\ cam'.tLookY = cam.tLookY

\* C33: the first frame of every rotation or pan drag leaves the target
\* where it was, and a later frame of a pan drag sets the look-at target to
\* the base of the drag plus the scaled displacement from its anchor; for
\* every interleaving of the events of the two hands.
C33_NoJumpAtDragStart ==
  [][ HandStep =>
        /\ (LeftStart \/ RightRotStart) => SameRotation
        /\ RightPanStart => SameLookAt
        /\ (obs'.emitted[1].isRightHand /\ obs'.emitted[1].isPinching
              /\ obs.log.rightDrag = "pan") =>
             cam'.tLookX = cam.panBaseX
                             + (obs'.emitted[1].panX - Val(cam.panAnchorX)) * PAN_SCALE ]_vars

\* the parts that hold: the pan drag, whose anchor only the pinching right
\* hand sets, never jumps at its start, and a rotation drag that starts
\* with no rotation anchor set does not either
PanDragAnchored ==
  [][ HandStep /\ RightPanStart => SameLookAt ]_vars

RotationStartUnanchored ==
  [][ HandStep /\ (LeftStart \/ RightRotStart) /\ cam.rotAnchorX = NullNum =>
        SameRotation ]_vars

\* the open right hand has come in while the left hand was rotating, and
\* the rotation target has jumped
RotationJumped ==
  /\ obs.act = "gesture"
  /\ obs.emitted = <<Ev(FALSE, FALSE, 0)>>
  /\ obs.log.leftPanX = Some(40)
  /\ Val(obs.log.leftOrbitX) # cam.tOrbitX

\* ------------------------------------------- C34: the clamped targets

\* C34: in every reachable state the vertical rotation target lies in
\* [-0.45 pi, 0.45 pi] and the zoom target in [30, 600].
C34_TargetsClamped ==
  /\ -MAX_TILT <= cam.tOrbitY /\ cam.tOrbitY <= MAX_TILT
  /\ DIST_MIN <= cam.tOrbitDist /\ cam.tOrbitDist <= DIST_MAX

\* the left hand has gone up and come near: the displacement asks for a
\* tilt beyond the upper end and the size for a distance below the lower
\* one, and both targets are at their ends
C34_Witness ==
  /\ obs.act = "gesture"
  /\ obs.emitted = <<EvAt(TRUE, FALSE, 40, -100, 60)>>
  /\ cam.rotAnchorY # NullNum
  /\ cam.rotBaseY - (-100 - Val(cam.rotAnchorY)) * ROT_SCALE > MAX_TILT
  /\ cam.tOrbitY = MAX_TILT
  /\ cam.tOrbitDist = DIST_MIN

\* and the other ends: the hand low and far
LowerEndsReached ==
  /\ obs.act = "gesture"
  /\ cam.tOrbitY = -MAX_TILT
  /\ cam.tOrbitDist = DIST_MAX

\* ------------------------------------------ C35: the easing of the camera

\* the pairs of a current value and its target
Eased(v, c, w) ==
  /\ w.orbitAngleX - v.orbitAngleX = ((c.tOrbitX - v.orbitAngleX) * SM) \div 100
  /\ w.orbitAngleY - v.orbitAngleY = ((c.tOrbitY - v.orbitAngleY) * SM) \div 100
  /\ w.orbitDist - v.orbitDist = ((c.tOrbitDist - v.orbitDist) * SM) \div 100
  /\ w.lookAtX - v.lookAtX = ((c.tLookX - v.lookAtX) * SM) \div 100
  /\ w.lookAtY - v.lookAtY = ((c.tLookY - v.lookAtY) * SM) \div 100

SameValues(v, w) == [w EXCEPT !.anim = 0] = [v EXCEPT !.anim = 0]

\* C35: while gesture control is on, every animation frame moves each
\* current camera value toward its target by 0.1 of the difference, whether
\* or not the latest gesture event had a hand.
C35_EasesWhileActive ==
  [][ AnimStep /\ cam.handActive => Eased(view, cam, view') ]_vars

\* C35 amended: an animation frame moves each current value toward its
\* target by 0.1 of the difference exactly when handControlling is set,
\* that is when the last gesture event had a hand, whatever time has passed
\* since that event; after an event without a hand the current values stay
\* where they are.
C35_EasesWhileControlling ==
  [][ AnimStep =>
        IF cam.handControlling
          THEN Eased(view, cam, view') /\ cam' = cam
        ELSE SameValues(view, view') ]_vars

\* an animation frame, run some time after the last event of the hand, has
\* moved the tilt and the distance toward their targets
C35_Witness ==
  /\ obs.act = "anim"
  /\ cam.handControlling
  /\ now > 0
  /\ view.orbitAngleY # ViewInit.orbitAngleY
  /\ view.orbitDist # ViewInit.orbitDist
  /\ view.orbitDist # cam.tOrbitDist

\* an animation frame has left the current values short of their targets
\* because the last event had no hand
EasingStopped ==
  /\ obs.act = "anim"
  /\ cam.handActive /\ ~cam.handControlling
  /\ view.orbitDist = ViewInit.orbitDist
  /\ cam.tOrbitDist # ViewInit.orbitDist

\* ------------------------------------- C36: what a deactivation clears

\* C36: after deactivateHands, by the click or by the idle timer, the
\* rotation and pan anchors are null, the state of each hand is the
\* initial one, and the orbit controls are enabled.
C36_DeactivationClears ==
  [][ DeactivationStep =>
        /\ AnchorsNull(cam')
        /\ handState' = [k \in Roles |-> HandInit]
        /\ cam'.controls = [enabled |-> TRUE, autoRotate |-> TRUE] ]_vars

\* the parts that hold: the controls are enabled, hand control and the
\* idle timer are off, no hand is activated or pinching; and the idle
\* timer, which is armed by an event that clears the anchors and cancelled
\* by every event that sets one, finds the anchors null
DeactivationResets ==
  [][ DeactivationStep =>
        /\ cam'.controls = [enabled |-> TRUE, autoRotate |-> TRUE]
        /\ ~cam'.handActive /\ ~cam'.handControlling /\ cam'.noHandTimer = 0
        /\ ~running'
        /\ \A k \in Roles : handState'[k] = ResetHand(handState[k])
        /\ obs'.act = "timeout" => AnchorsNull(cam') ]_vars

\* the click has switched hand control off while a hand was dragging: the
\* rotation anchor and the smoothed position of the hand are still those
\* of the session that ended
StaleAfterClick ==
  /\ obs.act = "click" /\ obs.deactivations >= 1 /\ ~cam.handActive
  /\ cam.rotAnchorX # NullNum
  /\ handState["left"].smoothX # HandInit.smoothX

\* ------------------------------ C37: the in-flight map holds no settled job

Settled(j) == jobs[j].st \in {"resolved", "rejected"}

\* no promise reaction is pending: the server is between two tasks
Quiet == mq = <<>>

\* the step is the arrival of request r
Arrives(r) == reqs[r].pc = "idle" /\ reqs'[r].pc # "idle"

\* C37: once the reactions of a settled job have run, its key is not in
\* parseJobs: between two tasks every entry of the map is a job that has
\* not settled, a request never joins a settled job, and a request for the
\* key of a settled job starts a job of its own.
C37_EntriesRemoved ==
  /\ [](Quiet => \A k \in DOMAIN parseJobs :
                   /\ ~Settled(parseJobs[k])
                   /\ jobs[parseJobs[k]].key = k)
  /\ [][ \A r \in ReqIds :
           Arrives(r) =>
             /\ reqs'[r].pc = "awaitJoined" => ~Settled(reqs'[r].job)
             /\ (reqs'[r].pc \in {"awaitJoined", "awaitOwn"}
                   /\ \A j \in DOMAIN jobs :
                        jobs[j].key = JobKey(reqs'[r].repo, reqs'[r].sd) => Settled(j))
                  => reqs'[r].pc = "awaitOwn" /\ reqs'[r].job = r ]_vars

\* a job for a key has resolved and left the map, and a later request for
\* the key has started a job of its own
C37_Witness ==
  /\ Quiet
  /\ \E j1, j2 \in DOMAIN jobs :
       /\ j1 < j2
       /\ jobs[j1].key = jobs[j2].key
       /\ jobs[j1].st = "resolved"
       /\ ~Settled(j2)
       /\ parseJobs[jobs[j2].key] = j2

\* the same after a job that was rejected
NewJobAfterFailure ==
  /\ Quiet
  /\ \E j1, j2 \in DOMAIN jobs :
       /\ j1 < j2
       /\ jobs[j1].key = jobs[j2].key
       /\ jobs[j1].st = "rejected"
       /\ ~Settled(j2)
       /\ parseJobs[jobs[j2].key] = j2

\* ------------------------- C38: the idle timer and a hand without a palm

\* the step is a run of detect over a frame with a hand in the image
HandFrameStep ==
  /\ obs'.act \in {"detect", "init"}
  /\ obs'.frames = obs.frames + 1
  /\ obs'.hands # <<>>

\* C38: a frame in which a hand is in the image cancels the pending idle
\* timer, also when the hand has not shown its palm since the last frame
\* without a hand; so the timer runs only after 3 s of frames without hands.
C38_HandCancelsIdleTimer ==
  [][ HandFrameStep => IdleTimers' = {} /\ cam'.noHandTimer = 0 ]_vars

\* the part that holds: a frame with a hand that is active after the palm
\* test cancels the timer
ActiveHandCancelsIdleTimer ==
  [][ HandFrameStep /\ obs'.emitted # <<>> =>
        IdleTimers' = {} /\ cam'.noHandTimer = 0 ]_vars

\* the idle timer is due although the last frame, 3 s after the frame
\* without hands that armed it, had a hand in the image
IdleTimerDueWithHand ==
  /\ obs.act = "detect"
  /\ obs.hands # <<>>
  /\ obs.emitted = <<>>
  /\ \E t \in IdleTimers : t.due <= now

\* -------------------------------- C39: no isolated file in the file view

\* the walked files without a resolved import edge in either direction
Isolated == {f \in Range(allFiles) : Connectivity(f) = 0}

\* C39: every node of the file view has connectivity of at least 1; a
\* walked file without an import edge is not a node, also when the cap is
\* not reached.
C39_NoIsolatedNode ==
  pc = "done" =>
    /\ \A k \in KeptFiles : Connectivity(k) >= 1
    /\ Isolated \cap KeptFiles = {}

\* a build with an isolated file and with fewer connected files than the
\* cap allows
C39_Witness ==
  /\ pc = "done"
  /\ Isolated # {}
  /\ Len(out.fileNodes) >= 2
  /\ Len(out.fileNodes) < maxFiles

\* ---------------------------- C40: whose token fetched the graph returned

\* request r has been answered with a graph
GotGraph(r) == reqs[r].pc = "done" /\ reqs[r].status = 200

\* C40: the graph a request of /api/parse is answered with was fetched with
\* the token of that request; a requester whose token cannot read the
\* repository gets no graph of it, also when a job of another user for the
\* same key is in flight or the checkout is in the cache.
C40_OwnTokenOnly ==
  \A r \in ReqIds :
    GotGraph(r) =>
      /\ Readable(reqs[r].token, reqs[r].repo)
      /\ reqs[r].body.fetchedWith = reqs[r].token

\* the part that holds: a request that starts a job whose clone runs gets
\* a graph only when its own token can read the repository
OwnCloneNeedsAccess ==
  \A r \in ReqIds :
    (GotGraph(r) /\ r \in DOMAIN jobs /\ reqs[r].body.fetchedWith = reqs[r].token)
      => Readable(reqs[r].token, reqs[r].repo)

\* a token that cannot read the repository has got its graph by joining
\* the job of another request
LeakByJoin ==
  \E r \in ReqIds :
    /\ GotGraph(r)
    /\ ~Readable(reqs[r].token, reqs[r].repo)
    /\ reqs[r].job # r

\* and by a job of its own that found the checkout in the cache
LeakByCache ==
  \E r \in ReqIds :
    /\ GotGraph(r)
    /\ ~Readable(reqs[r].token, reqs[r].repo)
    /\ reqs[r].job = r

====
